---- MODULE Spec2Model ----
(***************************************************************************)
(* A model of sngrep's capture manager (src/src/capture/capture.c), of its *)
(* SDP dissector (packet_sdp.c, kept as src/unnamed/part_001) and of its   *)
(* call list window (src/src/tui/windows/call_list_win.c).                 *)
(*                                                                         *)
(* Spec        the capture managers: the caller's thread issuing the API   *)
(*             calls of capture.c, and one worker thread per started       *)
(*             manager running the GLib main loop (capture_manager_thread).*)
(* FairSpec    Spec with weak fairness on the threads' own steps.          *)
(* SpecStatus  the one manager of the process with its inputs, its paused  *)
(*             flag and its life cycle: what the status queries read.      *)
(* SpecPause   the capture managers with their inputs, paused flags and    *)
(*             threads.                                                    *)
(* SpecFilter  the one manager of the process, its inputs and the capture  *)
(*             filter.                                                     *)
(* SpecSdp     packet_dissector_sdp_dissect applied, line by line, to a    *)
(*             bounded SDP body.                                           *)
(* SpecWin     the call list window (call_list_win.c): its keys and draws, *)
(*             and storage taking calls in.                                *)
(* SpecAuto    the call list window scrolled by keys and by autoscroll.    *)
(* SpecFlow    the call list window opening the flow and raw windows.      *)
(* SpecScroll  the call list window scrolled sideways.                     *)
(* SpecFree    the capture managers created, used and released.            *)
(* SpecSdpFree SpecSdp followed by the release of the packet's SDP data.   *)
(***************************************************************************)
EXTENDS Integers, Sequences, FiniteSets, TLC

\* ------------------------------------------------------------------ bounds
\* capture_manager_new calls made in a run
MaxManagers == 2
\* capture inputs created in a run
MaxInputs == 2
\* capture outputs created in a run
MaxOutputs == 1
\* byte size of an offline file, and cap of a live input's loaded counter
MaxSize == 1
\* lines of an SDP body
MaxLines == 3
\* calls storage creates in a run
MaxCalls == 4
\* rows of the call list window below its header line
MaxRows == 2
\* the setting SETTING_TUI_CL_SCROLLSTEP: lines of a page move
ScrollStep == 2
\* getmaxx of the list window: the columns of the terminal
WinWidth == 4
\* call_list_columns_width(self, 0) of the columns configured at start
ColumnsWidth == 6

\* ------------------------------------------------------------- value sets
\* a NULL gchar pointer
NullStr == "NULL"
\* a NULL struct pointer, as an index into a heap of structs
NullPtr == 0
\* capture filter expressions handed to capture_manager_set_filter
Exprs == {"udp", "vlan"}
\* enum CaptureMode
CAPTURE_MODE_ONLINE == "online"
CAPTURE_MODE_OFFLINE == "offline"

VARIABLES
    manager,        \* capture.c:36 static CaptureManager *manager (index, NullPtr = NULL)
    managers,       \* the CaptureManager structs allocated so far, by index
    input,          \* the CaptureInput objects created so far, by index
    output,         \* the CaptureOutput objects created so far, by index
    callerPc,       \* where the caller's thread is inside capture_manager_stop
    callerMgr,      \* the manager capture_manager_stop was called on
    callerIdx,      \* position of capture_manager_stop in the list it walks
    set_filter_ret, \* what the latest capture_manager_set_filter returned
    freed,          \* the managers capture_manager_free has released
    sdp_lines,      \* the SDP body, split in lines
    sdp_i,          \* index of the next line packet_dissector_sdp_dissect reads
    sdp_media,      \* PacketSdpMedia *media of the dissect loop (index in sdp.medias)
    sdp,            \* the PacketSdpData being filled
    fmt_heap,       \* the PacketSdpFormat records allocated by g_malloc0
    formats_written,\* the entries of the global formats[] written since program start
    sdp_pc,         \* position of the dissector
    sdp_fault,      \* a media descriptor that does not exist was accessed
    packet,         \* the packet's protocol data: is an SDP record attached
    sdp_ret,        \* what packet_dissector_sdp_dissect returned
    sdp_freed,      \* the PacketSdpFormat pointers handed to g_free, in order
    calls,          \* storage_calls(): the calls storage retains, oldest first
    created,        \* number of calls storage has created so far
    dcalls,         \* CallListWindow.dcalls: the Call pointers copied at the last draw
    group,          \* CallListWindow.group: the Call pointers of the selection
    cur_idx,        \* CallListWindow.cur_idx
    first_idx,      \* CallListWindow.first_idx
    vscroll_pos,    \* CallListWindow.vscroll.pos
    autoscroll,     \* CallListWindow.autoscroll
    sort_asc,       \* storage_sort_options().asc
    win_fault,      \* dcalls was read outside its bounds, or a freed call was read
    xcalls,         \* Call.xcalls: the pairs <<c, x>> with x in c->xcalls
    handed,         \* the groups the latest key or menu item handed to other windows
    hscroll_pos,    \* CallListWindow.hscroll.pos
    hscroll_max,    \* CallListWindow.hscroll.max
    menu_active     \* CallListWindow.menu_active: the sort menu is posted

capVars == <<manager, managers, input, output, callerPc, callerMgr, callerIdx, set_filter_ret, freed>>
sdpVars == <<sdp_lines, sdp_i, sdp_media, sdp, fmt_heap, formats_written, sdp_pc, sdp_fault, packet, sdp_ret, sdp_freed>>
uiVars == <<xcalls, handed, hscroll_pos, hscroll_max, menu_active>>
winVars == <<calls, created, dcalls, group, cur_idx, first_idx, vscroll_pos, autoscroll, sort_asc, win_fault, uiVars>>
vars == <<capVars, freed, sdpVars, winVars>>

\* ============================================================ capture.c
\* The manager allocated by g_malloc0 in capture_manager_new.
NewManager ==
    [paused |-> FALSE, filter |-> NullStr, inputs |-> <<>>, outputs |-> <<>>,
     is_running |-> FALSE, thread |-> "none", frame_l |-> 0]

ManagerIds == 1..Len(managers)

\* capture_manager_new: allocates a manager and stores it in the static pointer.
capture_manager_new ==
    /\ callerPc = "idle"
    /\ Len(managers) < MaxManagers
    /\ managers' = Append(managers, NewManager)
    /\ manager' = Len(managers) + 1
    /\ UNCHANGED <<input, output, callerPc, callerMgr, callerIdx, set_filter_ret, freed, sdpVars, winVars>>

\* capture_manager_free: the inputs and outputs lose the manager's reference
\* (their reference counts are not kept here), and the lists, the filter, the
\* loop and the manager's block are released. The static pointer is not
\* written: the parameter of the function hides it. Followed here for a
\* manager whose worker thread is not running.
capture_manager_free(m) ==
    /\ callerPc = "idle"
    /\ m \notin freed
    /\ managers[m].thread \in {"none", "exited", "joined"}
    /\ freed' = freed \cup {m}
    /\ UNCHANGED <<manager, managers, input, output, callerPc, callerMgr, callerIdx,
                   set_filter_ret, sdpVars, winVars>>

\* capture_manager_get_instance
capture_manager_get_instance == manager

\* A capture input as its constructor leaves it (capture_input_source not yet
\* destroyed, nothing loaded, no filter installed). accepts is the set of
\* expressions the input's filter() compiles.
NewInput(mode, total, accepts) ==
    [mode |-> mode, destroyed |-> FALSE, filter |-> NullStr, accepts |-> accepts,
     total |-> total, loaded |-> 0]

\* A capture output as its constructor leaves it.
NewOutput == [closed |-> FALSE, late |-> FALSE]

\* The inputs a test or main() can create: a live input advertises size 0, an
\* offline one the size of its file. Every input compiles "udp"; "vlan" only
\* compiles on some link types.
InputChoices ==
    {NewInput(CAPTURE_MODE_ONLINE, 0, Exprs)}
    \cup {NewInput(CAPTURE_MODE_OFFLINE, t, Exprs) : t \in 1..MaxSize}

InputChoicesFilter ==
    {NewInput(mode, IF mode = CAPTURE_MODE_OFFLINE THEN 1 ELSE 0, acc) :
        mode \in {CAPTURE_MODE_ONLINE, CAPTURE_MODE_OFFLINE}, acc \in {{"udp"}, Exprs}}

\* capture_manager_add_input: attaches the source and appends to manager->inputs.
capture_manager_add_input(m, in) ==
    /\ callerPc = "idle"
    /\ Len(input) < MaxInputs
    /\ input' = Append(input, in)
    /\ managers' = [managers EXCEPT ![m].inputs = Append(@, Len(input) + 1)]
    /\ UNCHANGED <<manager, output, callerPc, callerMgr, callerIdx, set_filter_ret, freed, sdpVars, winVars>>

\* capture_manager_add_output
capture_manager_add_output(m) ==
    /\ callerPc = "idle"
    /\ Len(output) < MaxOutputs
    /\ output' = Append(output, NewOutput)
    /\ managers' = [managers EXCEPT ![m].outputs = Append(@, Len(output) + 1)]
    /\ UNCHANGED <<manager, input, callerPc, callerMgr, callerIdx, set_filter_ret, freed, sdpVars, winVars>>

\* capture_input_filter: the input compiles and installs the expression, or
\* rejects it and keeps what it had. Returns 0 on failure.
capture_input_filter(heap, i, filter) ==
    IF filter \in heap[i].accepts
    THEN [ret |-> 1, heap |-> [heap EXCEPT ![i].filter = filter]]
    ELSE [ret |-> 0, heap |-> heap]

\* The loop of capture_manager_set_filter from list position k on: ok is FALSE
\* when an input rejected the expression (the early return).
RECURSIVE SetFilterLoop(_, _, _, _)
SetFilterLoop(heap, list, k, filter) ==
    IF k > Len(list) THEN [ok |-> TRUE, heap |-> heap]
    ELSE LET r == capture_input_filter(heap, list[k], filter) IN
         IF r.ret = 0 THEN [ok |-> FALSE, heap |-> r.heap]
         ELSE SetFilterLoop(r.heap, list, k + 1, filter)

\* SetFilterStored with the expression stored before the inputs are tried.
SetFilterStored_early(ok, filter) == filter

\* What capture_manager_set_filter leaves in manager->filter.
SetFilterStored(ok, filter) == IF ok THEN filter ELSE NullStr

\* capture_manager_set_filter
capture_manager_set_filter(m, filter) ==
    /\ callerPc = "idle"
    /\ LET r == SetFilterLoop(input, managers[m].inputs, 1, filter) IN
       /\ input' = r.heap
       /\ managers' = [managers EXCEPT ![m].filter = SetFilterStored(r.ok, filter)]
       /\ set_filter_ret' = [mgr |-> m, expr |-> filter, ok |-> r.ok]
    /\ UNCHANGED <<manager, output, callerPc, callerMgr, callerIdx, freed, sdpVars, winVars>>

\* capture_manager_filter
capture_manager_filter(m) == managers[m].filter

\* capture_manager_set_pause
capture_manager_set_pause(m, paused) ==
    /\ callerPc = "idle"
    /\ managers[m].paused # paused
    /\ managers' = [managers EXCEPT ![m].paused = paused]
    /\ UNCHANGED <<manager, input, output, callerPc, callerMgr, callerIdx, set_filter_ret, freed, sdpVars, winVars>>

\* capture_manager_toggle_pause
capture_manager_toggle_pause(m) ==
    /\ callerPc = "idle"
    /\ managers' = [managers EXCEPT ![m].paused = ~@]
    /\ UNCHANGED <<manager, input, output, callerPc, callerMgr, callerIdx, set_filter_ret, freed, sdpVars, winVars>>

\* capture_manager_start: g_thread_new; the new thread has not run yet.
capture_manager_start(m) ==
    /\ callerPc = "idle"
    /\ managers[m].thread = "none"
    /\ managers' = [managers EXCEPT ![m].thread = "spawned"]
    /\ UNCHANGED <<manager, input, output, callerPc, callerMgr, callerIdx, set_filter_ret, freed, sdpVars, winVars>>

\* capture_manager_stop is entered (on a manager whose thread was not joined yet).
capture_manager_stop(m) ==
    /\ callerPc = "idle"
    /\ managers[m].thread # "joined"
    /\ callerPc' = "stop_inputs"
    /\ callerMgr' = m
    /\ callerIdx' = 1
    /\ UNCHANGED <<manager, managers, input, output, set_filter_ret, freed, sdpVars, winVars>>

\* capture_manager_stop, first loop: g_source_destroy on each input's source.
capture_manager_stop_inputs ==
    /\ callerPc = "stop_inputs"
    /\ LET list == managers[callerMgr].inputs IN
       IF callerIdx <= Len(list)
       THEN /\ input' = [input EXCEPT ![list[callerIdx]].destroyed = TRUE]
            /\ callerIdx' = callerIdx + 1
            /\ UNCHANGED callerPc
       ELSE /\ callerPc' = "stop_outputs"
            /\ callerIdx' = 1
            /\ UNCHANGED input
    /\ UNCHANGED <<manager, managers, output, callerMgr, set_filter_ret, freed, sdpVars, winVars>>

\* capture_manager_stop, second loop: capture_output_close on each output.
capture_manager_stop_outputs ==
    /\ callerPc = "stop_outputs"
    /\ LET list == managers[callerMgr].outputs IN
       IF callerIdx <= Len(list)
       THEN /\ output' = [output EXCEPT ![list[callerIdx]].closed = TRUE]
            /\ callerIdx' = callerIdx + 1
            /\ UNCHANGED callerPc
       ELSE /\ callerPc' = "stop_quit"
            /\ callerIdx' = 1
            /\ UNCHANGED output
    /\ UNCHANGED <<manager, managers, input, callerMgr, set_filter_ret, freed, sdpVars, winVars>>

\* capture_manager_stop: g_main_loop_quit clears the loop's is_running flag.
capture_manager_stop_quit ==
    /\ callerPc = "stop_quit"
    /\ managers' = [managers EXCEPT ![callerMgr].is_running = FALSE]
    /\ callerPc' = "stop_join"
    /\ UNCHANGED <<manager, input, output, callerMgr, callerIdx, set_filter_ret, freed, sdpVars, winVars>>

\* capture_manager_stop: g_thread_join returns once the thread function has
\* returned (at once, with a warning, for the NULL thread of a manager that
\* was never started).
capture_manager_stop_join ==
    /\ callerPc = "stop_join"
    /\ managers[callerMgr].thread \in {"exited", "none"}
    /\ managers' = [managers EXCEPT ![callerMgr].thread =
                        IF @ = "exited" THEN "joined" ELSE @]
    /\ callerPc' = "idle"
    /\ UNCHANGED <<manager, input, output, callerMgr, callerIdx, set_filter_ret, freed, sdpVars, winVars>>

\* capture_manager_thread: the worker enters g_main_loop_run, which sets the
\* loop's is_running flag and iterates while it is set.
capture_manager_thread(m) ==
    /\ managers[m].thread = "spawned"
    /\ managers' = [managers EXCEPT ![m].thread = "loop", ![m].is_running = TRUE]
    /\ UNCHANGED <<manager, input, output, callerPc, callerMgr, callerIdx, set_filter_ret, freed, sdpVars, winVars>>

\* One iteration of the loop dispatches the source of an attached input that
\* is not destroyed: the input reads a frame, which is dropped or goes on to
\* capture_manager_output_packet.
WorkerReadFrame(m, k, deliver) ==
    /\ managers[m].thread = "loop"
    /\ managers[m].is_running
    /\ k \in 1..Len(managers[m].inputs)
    /\ LET i == managers[m].inputs[k] IN
       /\ ~input[i].destroyed
       /\ input[i].loaded < (IF input[i].mode = CAPTURE_MODE_OFFLINE
                             THEN input[i].total ELSE MaxSize)
       /\ input' = [input EXCEPT ![i].loaded = @ + 1]
    /\ managers' = [managers EXCEPT ![m].thread = IF deliver THEN "frame" ELSE @,
                                    ![m].frame_l = IF deliver THEN 1 ELSE @]
    /\ UNCHANGED <<manager, output, callerPc, callerMgr, callerIdx, set_filter_ret, freed, sdpVars, winVars>>

\* An offline input that has read its whole file destroys its own source.
WorkerEof(m, k) ==
    /\ managers[m].thread = "loop"
    /\ managers[m].is_running
    /\ k \in 1..Len(managers[m].inputs)
    /\ LET i == managers[m].inputs[k] IN
       /\ ~input[i].destroyed
       /\ input[i].mode = CAPTURE_MODE_OFFLINE
       /\ input[i].loaded = input[i].total
       /\ input' = [input EXCEPT ![i].destroyed = TRUE]
    /\ UNCHANGED <<manager, managers, output, callerPc, callerMgr, callerIdx, set_filter_ret, freed, sdpVars, winVars>>

\* capture_output_write: the output records a write made after its close.
capture_output_write(o) == [o EXCEPT !.late = @ \/ o.closed]

\* capture_manager_output_packet, one turn of its loop over manager->outputs.
capture_manager_output_packet(m) ==
    /\ managers[m].thread = "frame"
    /\ LET list == managers[m].outputs
           l == managers[m].frame_l IN
       IF l <= Len(list)
       THEN /\ output' = [output EXCEPT ![list[l]] = capture_output_write(@)]
            /\ managers' = [managers EXCEPT ![m].frame_l = l + 1]
       ELSE /\ managers' = [managers EXCEPT ![m].thread = "loop", ![m].frame_l = 0]
            /\ UNCHANGED output
    /\ UNCHANGED <<manager, input, callerPc, callerMgr, callerIdx, set_filter_ret, freed, sdpVars, winVars>>

\* g_main_loop_run returns when it finds is_running cleared; the thread
\* function returns.
WorkerExit(m) ==
    /\ managers[m].thread = "loop"
    /\ ~managers[m].is_running
    /\ managers' = [managers EXCEPT ![m].thread = "exited"]
    /\ UNCHANGED <<manager, input, output, callerPc, callerMgr, callerIdx, set_filter_ret, freed, sdpVars, winVars>>

\* ------------------------------------------------- capture.c, the queries
\* The sums of capture_manager_load_progress's loop, from list position k on.
RECURSIVE LoadSums(_, _, _, _)
LoadSums(list, k, total, loaded) ==
    IF k > Len(list) THEN [total |-> total, loaded |-> loaded]
    ELSE LoadSums(list, k + 1, total + input[list[k]].total, loaded + input[list[k]].loaded)

\* capture_manager_load_progress: the outcomes the call can have. The sums are
\* guint64 and the result is cast to guint; the bounded sizes stay far below
\* either width. A division by zero is undefined: the process traps (SIGFPE,
\* x86) or the division yields 0 (AArch64).
capture_manager_load_progress(m) ==
    LET s == LoadSums(managers[m].inputs, 1, 0, 0) IN
    IF s.total = 0
    THEN {[trap |-> TRUE, value |-> 0], [trap |-> FALSE, value |-> 0]}
    ELSE {[trap |-> FALSE, value |-> (s.loaded * 100) \div s.total]}

\* The counters of capture_status_desc's loop, from list position k on.
RECURSIVE StatusCount(_, _, _)
StatusCount(list, k, c) ==
    IF k > Len(list) THEN c
    ELSE LET in == input[list[k]] IN
         IF in.mode = CAPTURE_MODE_OFFLINE
         THEN StatusCount(list, k + 1,
                  [c EXCEPT !.offline = @ + 1,
                            !.loading = IF ~in.destroyed THEN @ + 1 ELSE @])
         ELSE StatusCount(list, k + 1, [c EXCEPT !.online = @ + 1])

\* The mode word when one live input is enough to report Online.
StatusMode_some(online, offline) ==
    IF online > 0 THEN "Online"
    ELSE IF offline > 0 THEN "Offline"
    ELSE "Mixed"

\* The mode word capture_status_desc picks in each of its three branches.
StatusMode(online, offline) ==
    IF online > 0 /\ offline = 0 THEN "Online"
    ELSE IF online = 0 /\ offline > 0 THEN "Offline"
    ELSE "Mixed"

\* capture_status_desc with the loading branch tested before the paused one.
capture_status_desc_loading_first(m) ==
    LET c == StatusCount(managers[m].inputs, 1, [online |-> 0, offline |-> 0, loading |-> 0])
        mode == StatusMode(c.online, c.offline) IN
    IF c.loading > 0 THEN <<mode, "Loading">>
    ELSE IF managers[m].paused THEN <<mode, "Paused">>
    ELSE <<mode, "">>

\* capture_status_desc
capture_status_desc(m) ==
    LET c == StatusCount(managers[m].inputs, 1, [online |-> 0, offline |-> 0, loading |-> 0])
        mode == StatusMode(c.online, c.offline) IN
    IF managers[m].paused THEN <<mode, "Paused">>
    ELSE IF c.loading > 0 THEN <<mode, "Loading">>
    ELSE <<mode, "">>

\* capture_is_online: the loop from list position k on.
RECURSIVE IsOnlineLoop(_, _)
IsOnlineLoop(list, k) ==
    IF k > Len(list) THEN TRUE
    ELSE IF input[list[k]].mode = CAPTURE_MODE_OFFLINE THEN FALSE
    ELSE IsOnlineLoop(list, k + 1)

\* capture_is_online looking at the first input only.
capture_is_online_first(m) ==
    LET list == managers[m].inputs IN
    IF Len(list) = 0 THEN TRUE ELSE input[list[1]].mode # CAPTURE_MODE_OFFLINE

\* capture_is_online
capture_is_online(m) == IsOnlineLoop(managers[m].inputs, 1)

\* capture_is_running reads the static manager pointer, not an argument.
RECURSIVE IsRunningLoop(_, _)
IsRunningLoop(list, k) ==
    IF k > Len(list) THEN FALSE
    ELSE IF input[list[k]].destroyed = FALSE THEN TRUE
    ELSE IsRunningLoop(list, k + 1)

\* capture_is_running answering whether any input is attached.
capture_is_running_attached == Len(managers[manager].inputs) > 0

capture_is_running == IsRunningLoop(managers[manager].inputs, 1)

\* capture_is_paused
capture_is_paused == managers[manager].paused

\* ========================================================== packet_sdp.c
\* Text is a sequence of one-character strings. A NULL gchar pointer:
NullText == <<"NULL">>

\* formats[] as the program image initialises it: the known RTP encodings.
FormatsTable == <<
    [id |-> 0, name |-> <<"P", "C", "M", "U", "/", "8", "0", "0", "0">>, alias |-> <<"g", "7", "1", "1", "u">>],
    [id |-> 3, name |-> <<"G", "S", "M", "/", "8", "0", "0", "0">>, alias |-> <<"g", "s", "m">>],
    [id |-> 4, name |-> <<"G", "7", "2", "3", "/", "8", "0", "0", "0">>, alias |-> <<"g", "7", "2", "3">>],
    [id |-> 5, name |-> <<"D", "V", "I", "4", "/", "8", "0", "0", "0">>, alias |-> <<"d", "v", "i">>],
    [id |-> 6, name |-> <<"D", "V", "I", "4", "/", "1", "6", "0", "0", "0">>, alias |-> <<"d", "v", "i">>],
    [id |-> 7, name |-> <<"L", "P", "C", "/", "8", "0", "0", "0">>, alias |-> <<"l", "p", "c">>],
    [id |-> 8, name |-> <<"P", "C", "M", "A", "/", "8", "0", "0", "0">>, alias |-> <<"g", "7", "1", "1", "a">>],
    [id |-> 9, name |-> <<"G", "7", "2", "2", "/", "8", "0", "0", "0">>, alias |-> <<"g", "7", "2", "2">>],
    [id |-> 10, name |-> <<"L", "1", "6", "/", "4", "4", "1", "0", "0">>, alias |-> <<"l", "1", "6">>],
    [id |-> 11, name |-> <<"L", "1", "6", "/", "4", "4", "1", "0", "0">>, alias |-> <<"l", "1", "6">>],
    [id |-> 12, name |-> <<"Q", "C", "E", "L", "P", "/", "8", "0", "0", "0">>, alias |-> <<"q", "c", "e", "l", "p">>],
    [id |-> 13, name |-> <<"C", "N", "/", "8", "0", "0", "0">>, alias |-> <<"c", "n">>],
    [id |-> 14, name |-> <<"M", "P", "A", "/", "9", "0", "0", "0", "0">>, alias |-> <<"m", "p", "a">>],
    [id |-> 15, name |-> <<"G", "7", "2", "8", "/", "8", "0", "0", "0">>, alias |-> <<"g", "7", "2", "8">>],
    [id |-> 16, name |-> <<"D", "V", "I", "4", "/", "1", "1", "0", "2", "5">>, alias |-> <<"d", "v", "i">>],
    [id |-> 17, name |-> <<"D", "V", "I", "4", "/", "2", "2", "0", "5", "0">>, alias |-> <<"d", "v", "i">>],
    [id |-> 18, name |-> <<"G", "7", "2", "9", "/", "8", "0", "0", "0">>, alias |-> <<"g", "7", "2", "9">>],
    [id |-> 25, name |-> <<"C", "e", "l", "B", "/", "9", "0", "0", "0", "0">>, alias |-> <<"c", "e", "l", "b">>],
    [id |-> 26, name |-> <<"J", "P", "E", "G", "/", "9", "0", "0", "0", "0">>, alias |-> <<"j", "p", "e", "g">>],
    [id |-> 28, name |-> <<"n", "v", "/", "9", "0", "0", "0", "0">>, alias |-> <<"n", "v">>],
    [id |-> 31, name |-> <<"H", "2", "6", "1", "/", "9", "0", "0", "0", "0">>, alias |-> <<"h", "2", "6", "1">>],
    [id |-> 32, name |-> <<"M", "P", "V", "/", "9", "0", "0", "0", "0">>, alias |-> <<"m", "p", "v">>],
    [id |-> 33, name |-> <<"M", "P", "2", "T", "/", "9", "0", "0", "0", "0">>, alias |-> <<"m", "p", "2", "t">>],
    [id |-> 34, name |-> <<"H", "2", "6", "3", "/", "9", "0", "0", "0", "0">>, alias |-> <<"h", "2", "6", "3">>]>>

\* formats[i] as it is now: the initial entry unless it was written.
formats(i) ==
    IF i \in DOMAIN formats_written THEN formats_written[i] ELSE FormatsTable[i]

\* media_types[]
media_types == <<
    [str |-> <<"a", "u", "d", "i", "o">>, type |-> 0],
    [str |-> <<"v", "i", "d", "e", "o">>, type |-> 1],
    [str |-> <<"t", "e", "x", "t">>, type |-> 2],
    [str |-> <<"a", "p", "p", "l", "i", "c", "a", "t", "i", "o", "n">>, type |-> 3],
    [str |-> <<"m", "e", "s", "s", "a", "g", "e">>, type |-> 4],
    [str |-> <<"i", "m", "a", "g", "e">>, type |-> 5]>>

\* packet_sdp.h
SDP_MEDIA_UNKNOWN == -1
SDP_CONN_ADDRESS == 2
SDP_MEDIA_MEDIA == 0
SDP_MEDIA_PORT == 1
SDP_MEDIA_FORMAT == 3
SDP_ATTR_NAME == 0
SDP_ATTR_VALUE == 1
SDP_RTPMAP_CODE == 1
SDP_RTPMAP_NAME == 2

\* v[n] of a C array
Nth(v, n) == v[n + 1]

UpperCase == <<"A", "B", "C", "D", "E", "F", "G", "H", "I", "J", "K", "L", "M", "N", "O", "P", "Q", "R", "S", "T", "U", "V", "W", "X", "Y", "Z">>
LowerCase == <<"a", "b", "c", "d", "e", "f", "g", "h", "i", "j", "k", "l", "m", "n", "o", "p", "q", "r", "s", "t", "u", "v", "w", "x", "y", "z">>
Digits == <<"0", "1", "2", "3", "4", "5", "6", "7", "8", "9">>

\* g_ascii_tolower
g_ascii_tolower(c) ==
    IF \E k \in 1..26 : UpperCase[k] = c
    THEN LowerCase[CHOOSE k \in 1..26 : UpperCase[k] = c]
    ELSE c

\* The strings compared byte for byte: strcmp(a, b) == 0.
g_ascii_strcasecmp_eq_exact(a, b) == a = b

\* g_ascii_strcasecmp(a, b) == 0
g_ascii_strcasecmp_eq(a, b) ==
    /\ Len(a) = Len(b)
    /\ \A k \in 1..Len(a) : g_ascii_tolower(a[k]) = g_ascii_tolower(b[k])

IsDigit(c) == \E k \in 1..10 : Digits[k] = c
DigitVal(c) == (CHOOSE k \in 1..10 : Digits[k] = c) - 1

\* strtoul(s, NULL, 10): leading blanks are skipped, then the digits up to the
\* first other character are read; 0 when there are none. The numbers of the
\* bounded bodies fit the guint32 the callers cast to.
RECURSIVE StrtoulDigits(_, _, _)
StrtoulDigits(s, k, acc) ==
    IF k > Len(s) \/ ~IsDigit(s[k]) THEN acc
    ELSE StrtoulDigits(s, k + 1, acc * 10 + DigitVal(s[k]))

RECURSIVE SkipBlanks(_, _)
SkipBlanks(s, k) == IF k <= Len(s) /\ s[k] = " " THEN SkipBlanks(s, k + 1) ELSE k

strtoul(s) == StrtoulDigits(s, SkipBlanks(s, 1), 0)

\* g_strsplit / g_strsplit_set: the tokens of s cut at the characters of
\* delims; with max > 0 at most max tokens, the last holding the remainder;
\* the empty string gives the empty vector.
RECURSIVE SplitFrom(_, _, _, _, _, _)
SplitFrom(s, k, delims, max, done, cur) ==
    IF k > Len(s) THEN Append(done, cur)
    ELSE IF s[k] \in delims /\ (max < 1 \/ Len(done) < max - 1)
         THEN SplitFrom(s, k + 1, delims, max, Append(done, cur), <<>>)
         ELSE SplitFrom(s, k + 1, delims, max, done, Append(cur, s[k]))

g_strsplit_set(s, delims, max) ==
    IF Len(s) = 0 THEN <<>> ELSE SplitFrom(s, 1, delims, max, <<>>, <<>>)

g_strsplit(s, delim, max) == g_strsplit_set(s, {delim}, max)

\* address_new(ip, port), and the zeroed Address of g_malloc0
address_new(ip, port) == [ip |-> ip, port |-> port]
NoAddress == [ip |-> NullText, port |-> 0]

\* packet_sdp_media_type
RECURSIVE MediaTypeLoop(_, _)
MediaTypeLoop(media, i) ==
    IF i > Len(media_types) THEN SDP_MEDIA_UNKNOWN
    ELSE IF g_ascii_strcasecmp_eq(media, media_types[i].str) THEN media_types[i].type
    ELSE MediaTypeLoop(media, i + 1)

\* packet_sdp_media_type comparing the names byte for byte.
packet_sdp_media_type_exact(media) ==
    IF \E i \in 1..Len(media_types) : media_types[i].str = media
    THEN media_types[CHOOSE i \in 1..Len(media_types) : media_types[i].str = media].type
    ELSE SDP_MEDIA_UNKNOWN

packet_sdp_media_type(media) == MediaTypeLoop(media, 1)

\* packet_sdp_standard_format: the index in formats[] of the entry with this
\* id, NullPtr when there is none.
RECURSIVE StandardFormatLoop(_, _)
StandardFormatLoop(code, i) ==
    IF i > Len(FormatsTable) THEN NullPtr
    ELSE IF formats(i).id = code THEN i
    ELSE StandardFormatLoop(code, i + 1)

\* packet_sdp_standard_format finding no code in formats[].
packet_sdp_standard_format_none(code) == NullPtr

packet_sdp_standard_format(code) == StandardFormatLoop(code, 1)

\* A PacketSdpFormat pointer: into formats[] (tbl) or to a g_malloc0'ed record.
FormatAt(f) == IF f.tbl THEN formats(f.at) ELSE fmt_heap[f.at]

\* The format loop of packet_sdp_dissect_media from token i on: the pointers
\* appended to media->formats, and the heap with the records allocated.
RECURSIVE MediaFormatsLoop(_, _, _, _)
MediaFormatsLoop(tokens, i, list, heap) ==
    IF i > Len(tokens) THEN [list |-> list, heap |-> heap]
    ELSE LET code == strtoul(tokens[i])
             std == packet_sdp_standard_format(code) IN
         IF std # NullPtr
         THEN MediaFormatsLoop(tokens, i + 1, Append(list, [tbl |-> TRUE, at |-> std]), heap)
         ELSE MediaFormatsLoop(tokens, i + 1,
                  Append(list, [tbl |-> FALSE, at |-> Len(heap) + 1]),
                  Append(heap, [id |-> code, name |-> NullText, alias |-> NullText]))

\* packet_sdp_dissect_media: NULL for a line of fewer than four fields, else
\* the new PacketSdpMedia.
packet_sdp_dissect_media(data, heap, line) ==
    LET media_data == g_strsplit(line, " ", 4) IN
    IF Len(media_data) < 4 THEN [null |-> TRUE, heap |-> heap]
    ELSE LET rtpport == strtoul(Nth(media_data, SDP_MEDIA_PORT)) % 65536
             fl == MediaFormatsLoop(g_strsplit(Nth(media_data, SDP_MEDIA_FORMAT), " ", -1),
                                    1, <<>>, heap) IN
         [null |-> FALSE,
          media |-> [type |-> packet_sdp_media_type(Nth(media_data, SDP_MEDIA_MEDIA)),
                     sconn |-> NullText,
                     rtpport |-> rtpport,
                     rtcpport |-> 0,
                     address |-> IF data.sconn # NullText
                                 THEN address_new(data.sconn, rtpport) ELSE NoAddress,
                     channel |-> NullText,
                     formats |-> fl.list],
          heap |-> fl.heap]

\* packet_sdp_dissect_connection: the PacketSdpData it leaves (media is the
\* index of the current media in data.medias, NullPtr for none). The addresses
\* of the bounded bodies are shorter than ADDRESSLEN, so the copy is whole.
packet_sdp_dissect_connection(data, media, line) ==
    LET conn_data == g_strsplit(line, " ", 3) IN
    IF Len(conn_data) < 3 THEN data
    ELSE LET conn == Nth(conn_data, SDP_CONN_ADDRESS) IN
         IF media = NullPtr THEN [data EXCEPT !.sconn = conn]
         ELSE [data EXCEPT !.medias[media].sconn = conn,
                           !.medias[media].address =
                               address_new(conn, data.medias[media].rtpport)]

\* The rtpmap loop naming the first allocated record of the list, whatever
\* its id.
RtpmapLoop_noid(list, i, code, name, heap, written) ==
    LET own == {k \in 1..Len(list) : ~list[k].tbl} IN
    IF own = {} THEN [heap |-> heap, written |-> written]
    ELSE LET k == CHOOSE j \in own : \A h \in own : j <= h IN
         [heap |-> [heap EXCEPT ![list[k].at].name = name, ![list[k].at].alias = name],
          written |-> written]

\* The rtpmap loop of packet_sdp_dissect_attribute over media->formats from
\* position i on: the first format with this id gets the name, in the heap
\* or in formats[], wherever the pointer leads.
RECURSIVE RtpmapLoop(_, _, _, _, _, _)
RtpmapLoop(list, i, code, name, heap, written) ==
    IF i > Len(list) THEN [heap |-> heap, written |-> written]
    ELSE IF FormatAt(list[i]).id = code
         THEN IF list[i].tbl
              THEN [heap |-> heap,
                    written |-> [k \in DOMAIN written \cup {list[i].at} |->
                                    IF k = list[i].at
                                    THEN [formats(k) EXCEPT !.name = name, !.alias = name]
                                    ELSE written[k]]]
              ELSE [heap |-> [heap EXCEPT ![list[i].at].name = name,
                                          ![list[i].at].alias = name],
                    written |-> written]
         ELSE RtpmapLoop(list, i + 1, code, name, heap, written)

\* packet_sdp_dissect_attribute: what the line does. deref says whether the
\* line makes the function read or write a field of *media.
packet_sdp_dissect_attribute(data, media, heap, line) ==
    LET rtpattr == g_strsplit_set(line, {" ", ":", "/"}, -1)
        same == [data |-> data, heap |-> heap, written |-> formats_written, deref |-> FALSE] IN
    IF Len(rtpattr) < 2 THEN same
    ELSE IF g_ascii_strcasecmp_eq(Nth(rtpattr, SDP_ATTR_NAME), <<"r", "t", "p", "m", "a", "p">>)
    THEN IF Len(rtpattr) < 3 THEN same
         ELSE LET code == strtoul(Nth(rtpattr, SDP_RTPMAP_CODE)) IN
              IF packet_sdp_standard_format(code) # NullPtr THEN same
              ELSE IF media = NullPtr THEN [same EXCEPT !.deref = TRUE]
              ELSE LET r == RtpmapLoop(data.medias[media].formats, 1, code,
                                       Nth(rtpattr, SDP_RTPMAP_NAME), heap, formats_written) IN
                   [data |-> data, heap |-> r.heap, written |-> r.written, deref |-> TRUE]
    ELSE IF g_ascii_strcasecmp_eq(Nth(rtpattr, SDP_ATTR_NAME), <<"r", "t", "c", "p">>)
    THEN IF media = NullPtr THEN [same EXCEPT !.deref = TRUE]
         ELSE [same EXCEPT !.data.medias[media].rtcpport =
                               strtoul(Nth(rtpattr, SDP_ATTR_VALUE)) % 65536,
                           !.deref = TRUE]
    ELSE IF g_ascii_strcasecmp_eq(Nth(rtpattr, SDP_ATTR_NAME), <<"c", "h", "a", "n", "n", "e", "l">>)
    THEN IF media = NullPtr THEN [same EXCEPT !.deref = TRUE]
         ELSE [same EXCEPT !.data.medias[media].channel = Nth(rtpattr, SDP_ATTR_VALUE),
                           !.deref = TRUE]
    ELSE same

\* The lines of the bounded SDP bodies.
\* v=0
SdpLineV == <<"v", "=", "0">>
\* c=IN IP4 10.0.0.1
SdpLineC1 == <<"c", "=", "I", "N", " ", "I", "P", "4", " ", "1", "0", ".", "0", ".", "0", ".", "1">>
\* c=IN IP4 10.0.0.2
SdpLineC2 == <<"c", "=", "I", "N", " ", "I", "P", "4", " ", "1", "0", ".", "0", ".", "0", ".", "2">>
\* m=audio 4000 RTP/AVP 0 8
SdpLineM1 == <<"m", "=", "a", "u", "d", "i", "o", " ", "4", "0", "0", "0", " ", "R", "T", "P", "/", "A", "V", "P", " ", "0", " ", "8">>
\* m=Video 5000 RTP/AVP 101
SdpLineM2 == <<"m", "=", "V", "i", "d", "e", "o", " ", "5", "0", "0", "0", " ", "R", "T", "P", "/", "A", "V", "P", " ", "1", "0", "1">>
\* m=fax 6000 udptl 8 96
SdpLineM3 == <<"m", "=", "f", "a", "x", " ", "6", "0", "0", "0", " ", "u", "d", "p", "t", "l", " ", "8", " ", "9", "6">>
\* m=audio 4000
SdpLineMShort == <<"m", "=", "a", "u", "d", "i", "o", " ", "4", "0", "0", "0">>
\* a=rtpmap:0 PCMU/8000
SdpLineRtpmapStd == <<"a", "=", "r", "t", "p", "m", "a", "p", ":", "0", " ", "P", "C", "M", "U", "/", "8", "0", "0", "0">>
\* a=rtpmap:101 telephone-event/8000
SdpLineRtpmap101 == <<"a", "=", "r", "t", "p", "m", "a", "p", ":", "1", "0", "1", " ", "t", "e", "l", "e", "p", "h", "o", "n", "e", "-", "e", "v", "e", "n", "t", "/", "8", "0", "0", "0">>
\* a=rtpmap:101
SdpLineRtpmapShort == <<"a", "=", "r", "t", "p", "m", "a", "p", ":", "1", "0", "1">>
\* a=rtcp:4001
SdpLineRtcp == <<"a", "=", "r", "t", "c", "p", ":", "4", "0", "0", "1">>
\* a=Channel:ab@tts
SdpLineChannel == <<"a", "=", "C", "h", "a", "n", "n", "e", "l", ":", "a", "b", "@", "t", "t", "s">>
\* a=ptime:20
SdpLinePtime == <<"a", "=", "p", "t", "i", "m", "e", ":", "2", "0">>

SdpLineSet == {SdpLineV, SdpLineC1, SdpLineC2, SdpLineM1, SdpLineM2, SdpLineM3, SdpLineMShort, SdpLineRtpmapStd, SdpLineRtpmap101, SdpLineRtpmapShort, SdpLineRtcp, SdpLineChannel, SdpLinePtime}

RECURSIVE SeqsUpTo(_, _)
SeqsUpTo(S, n) ==
    IF n = 0 THEN {<<>>}
    ELSE LET shorter == SeqsUpTo(S, n - 1) IN
         shorter \cup {Append(b, x) : b \in {y \in shorter : Len(y) = n - 1}, x \in S}

\* The bodies handed to the dissector: the empty one, and up to MaxLines lines.
SdpBodies == SeqsUpTo(SdpLineSet, MaxLines)

\* packet_dissector_sdp_dissect is entered: an empty body is returned as it
\* is; else the PacketSdpData is allocated and the body split in lines.
packet_dissector_sdp_dissect ==
    /\ sdp_pc = "start"
    /\ IF Len(sdp_lines) = 0
       THEN sdp_pc' = "done" /\ sdp_ret' = "data"
       ELSE sdp_pc' = "lines" /\ UNCHANGED sdp_ret
    /\ UNCHANGED <<sdp_lines, sdp_i, sdp_media, sdp, fmt_heap, formats_written, sdp_fault, packet, sdp_freed, capVars, winVars>>

\* One turn of the loop over the lines. A line that makes
\* packet_sdp_dissect_attribute use a NULL media is undefined behaviour: the
\* process is killed (trap) or goes on with the line having changed nothing.
packet_dissector_sdp_dissect_line(trap) ==
    /\ sdp_pc = "lines"
    /\ sdp_i <= Len(sdp_lines)
    /\ LET line == SubSeq(sdp_lines[sdp_i], 3, Len(sdp_lines[sdp_i]))
           kind == sdp_lines[sdp_i][1] IN
       IF kind = "c"
       THEN /\ sdp' = packet_sdp_dissect_connection(sdp, sdp_media, line)
            /\ sdp_i' = sdp_i + 1
            /\ ~trap
            /\ UNCHANGED <<sdp_media, fmt_heap, formats_written, sdp_fault, sdp_pc>>
       ELSE IF kind = "m"
       THEN LET r == packet_sdp_dissect_media(sdp, fmt_heap, line) IN
            /\ IF ~r.null
               THEN /\ sdp' = [sdp EXCEPT !.medias = Append(@, r.media)]
                    /\ sdp_media' = Len(sdp.medias) + 1
               ELSE /\ sdp_media' = NullPtr
                    /\ UNCHANGED sdp
            /\ fmt_heap' = r.heap
            /\ sdp_i' = sdp_i + 1
            /\ ~trap
            /\ UNCHANGED <<formats_written, sdp_fault, sdp_pc>>
       ELSE IF kind = "a"
       THEN LET r == packet_sdp_dissect_attribute(sdp, sdp_media, fmt_heap, line)
                null == r.deref /\ sdp_media = NullPtr IN
            /\ sdp' = r.data
            /\ fmt_heap' = r.heap
            /\ formats_written' = r.written
            /\ sdp_fault' = (sdp_fault \/ null)
            /\ trap => null
            /\ sdp_pc' = IF trap THEN "killed" ELSE sdp_pc
            /\ sdp_i' = sdp_i + 1
            /\ UNCHANGED sdp_media
       ELSE /\ sdp_i' = sdp_i + 1
            /\ ~trap
            /\ UNCHANGED <<sdp_media, sdp, fmt_heap, formats_written, sdp_fault, sdp_pc>>
    /\ UNCHANGED <<sdp_lines, packet, sdp_ret, sdp_freed, capVars, winVars>>

\* After the last line: packet_set_protocol_data, and NULL is returned.
packet_dissector_sdp_dissect_return ==
    /\ sdp_pc = "lines"
    /\ sdp_i > Len(sdp_lines)
    /\ packet' = [packet EXCEPT !.PACKET_PROTO_SDP = TRUE]
    /\ sdp_ret' = "NULL"
    /\ sdp_pc' = "done"
    /\ UNCHANGED <<sdp_lines, sdp_i, sdp_media, sdp, fmt_heap, formats_written, sdp_fault, sdp_freed, capVars, winVars>>

\* ======================================================= call_list_win.c
\* The Call pointers storage retains.
Stored == {calls[k].id : k \in 1..Len(calls)}

\* The Call pointers of a list of calls.
CallIds(list) == {list[k].id : k \in 1..Len(list)}

\* The xcalls links left when only the calls of kept stay in storage: a call
\* that goes takes its links, and the back-references to it, with it.
PurgeXcalls(kept) == {p \in xcalls : p[1] \in CallIds(kept) /\ p[2] \in CallIds(kept)}

\* storage append on the worker thread: a call is created; when the memory
\* limit is exceeded the oldest call is evicted. shown tells whether
\* filter_check_call lets the call into the displayed list.
storage_add_call(shown, evict) ==
    /\ created < MaxCalls
    /\ evict => Len(calls) > 0
    /\ calls' = Append(IF evict THEN Tail(calls) ELSE calls,
                       [id |-> created + 1, shown |-> shown])
    /\ created' = created + 1
    /\ xcalls' = IF evict THEN PurgeXcalls(Tail(calls)) ELSE xcalls
    /\ UNCHANGED <<dcalls, group, cur_idx, first_idx, vscroll_pos, autoscroll, sort_asc,
                   win_fault, capVars, sdpVars, handed, hscroll_pos, hscroll_max,
                   menu_active>>

\* storage append of a message of a call it already has: the memory limit is
\* exceeded and the oldest call is evicted.
storage_evict ==
    /\ Len(calls) > 0
    /\ calls' = Tail(calls)
    /\ xcalls' = PurgeXcalls(Tail(calls))
    /\ UNCHANGED <<created, dcalls, group, cur_idx, first_idx, vscroll_pos, autoscroll,
                   sort_asc, win_fault, capVars, sdpVars, handed, hscroll_pos,
                   hscroll_max, menu_active>>

\* A message of call a refers to the Call-ID of call b (Replaces, Refer-To):
\* storage links the two calls both ways.
storage_link(a, b) ==
    /\ a \in Stored
    /\ b \in Stored
    /\ a # b
    /\ <<a, b>> \notin xcalls
    /\ xcalls' = xcalls \cup {<<a, b>>, <<b, a>>}
    /\ UNCHANGED <<calls, created, dcalls, group, cur_idx, first_idx, vscroll_pos,
                   autoscroll, sort_asc, win_fault, capVars, sdpVars, handed,
                   hscroll_pos, hscroll_max, menu_active>>

\* The calls of list that filter_check_call lets through, in order.
RECURSIVE SelectShown(_)
SelectShown(list) ==
    IF Len(list) = 0 THEN <<>>
    ELSE (IF list[1].shown THEN <<list[1]>> ELSE <<>>) \o SelectShown(Tail(list))

\* storage_calls_clear: every call is removed.
storage_calls_clear == <<>>

\* storage_calls_clear_soft: the calls that are not displayed are removed.
storage_calls_clear_soft == SelectShown(calls)

\* g_ptr_array_copy_filtered(storage_calls(), filter_check_call): the
\* pointers of the calls the filters let through.
CopyFiltered(list) ==
    LET kept == SelectShown(list) IN [k \in 1..Len(kept) |-> kept[k].id]

\* CLAMP, MIN and MAX of glib
CLAMP(x, low, high) == IF x > high THEN high ELSE IF x < low THEN low ELSE x
MIN(a, b) == IF a < b THEN a ELSE b
MAX(a, b) == IF a > b THEN a ELSE b

\* the largest gint
G_MAXINT == 2147483647

\* cur_idx + times in gint: a sum above G_MAXINT is a signed overflow, after
\* which the build either wraps to a negative number or keeps comparing as if
\* the sum were large (ovf).
GintAdd(a, b, ovf) ==
    IF b > 0 /\ a > G_MAXINT - b
    THEN (IF ovf = "wrap" THEN -1 - (G_MAXINT - b) ELSE G_MAXINT)
    ELSE a + b

\* The sum does overflow, or ovf is the one value kept for a sum that does not.
OvfFits(a, b, ovf) == (b > 0 /\ a > G_MAXINT - b) \/ ovf = "wrap"

\* call_list_move_vertical on a window showing list: the fields it leaves.
call_list_move_vertical(list, cur, first, times, ovf) ==
    LET c == CLAMP(GintAdd(cur, times, ovf), 0, Len(list) - 1)
        f == MAX(MIN(first, c), c - MaxRows + 1) IN
    [cur_idx |-> c, first_idx |-> f, vscroll_pos |-> f]

\* call_list_win_draw_list: dcalls is copied anew from storage, and with
\* autoscroll the cursor goes to the last or to the first call.
call_list_win_draw_list(padw) ==
    /\ hscroll_max' = padw
    /\ LET d == CopyFiltered(calls)
           mv == call_list_move_vertical(d, cur_idx, first_idx,
                                         IF sort_asc THEN Len(d) ELSE Len(d) * (-1),
                                         "wrap") IN
       /\ dcalls' = d
       /\ IF autoscroll
          THEN /\ cur_idx' = mv.cur_idx
               /\ first_idx' = mv.first_idx
               /\ vscroll_pos' = mv.vscroll_pos
          ELSE UNCHANGED <<cur_idx, first_idx, vscroll_pos>>
    /\ UNCHANGED <<calls, created, group, autoscroll, sort_asc, win_fault, capVars, sdpVars,
                   xcalls, handed, hscroll_pos, menu_active>>

\* call_list_move_horizontal: the hscroll.pos it leaves.
call_list_move_horizontal(pos, times) == CLAMP(pos + times, 0, hscroll_max - WinWidth)

\* call_list_win_handle_key, ACTION_RIGHT and ACTION_LEFT
call_list_win_handle_key_horizontal(action) ==
    /\ ~menu_active
    /\ action \in {"ACTION_RIGHT", "ACTION_LEFT"}
    /\ hscroll_pos' = call_list_move_horizontal(hscroll_pos,
                                                IF action = "ACTION_RIGHT" THEN 3 ELSE -3)
    /\ UNCHANGED <<calls, created, dcalls, group, cur_idx, first_idx, vscroll_pos,
                   autoscroll, sort_asc, win_fault, capVars, sdpVars, xcalls, handed,
                   hscroll_max, menu_active>>

\* The vertical navigation actions of call_list_win_handle_key.
MoveActions == {"ACTION_DOWN", "ACTION_UP", "ACTION_HNPAGE", "ACTION_NPAGE",
                "ACTION_HPPAGE", "ACTION_PPAGE", "ACTION_BEGIN", "ACTION_END"}

\* The times argument each action hands to call_list_move_vertical.
\* rnpag_steps is a guint, so -1 * rnpag_steps is computed in guint: as a gint
\* argument -1 * rnpag_steps is -rnpag_steps again, but -1 * rnpag_steps / 2
\* is (2^32 - rnpag_steps) / 2, a large positive number.
MoveTimes(action) ==
    CASE action = "ACTION_DOWN" -> 1
      [] action = "ACTION_UP" -> -1
      [] action = "ACTION_HNPAGE" -> ScrollStep \div 2
      [] action = "ACTION_NPAGE" -> ScrollStep
      [] action = "ACTION_HPPAGE" ->
            IF ScrollStep = 0 THEN 0 ELSE (G_MAXINT - ((ScrollStep + 1) \div 2)) + 1
      [] action = "ACTION_PPAGE" -> 0 - ScrollStep
      [] action = "ACTION_BEGIN" -> Len(dcalls) * (-1)
      [] action = "ACTION_END" -> Len(dcalls)

\* call_list_win_handle_key, the vertical moves; autoscroll is disabled
\* after each.
call_list_win_handle_key_move(action, ovf) ==
    /\ ~menu_active
    /\ action \in MoveActions
    /\ OvfFits(cur_idx, MoveTimes(action), ovf)
    /\ LET mv == call_list_move_vertical(dcalls, cur_idx, first_idx,
                                         MoveTimes(action), ovf) IN
       /\ cur_idx' = mv.cur_idx
       /\ first_idx' = mv.first_idx
       /\ vscroll_pos' = mv.vscroll_pos
    /\ autoscroll' = FALSE
    /\ UNCHANGED <<calls, created, dcalls, group, sort_asc, win_fault, capVars, sdpVars, uiVars>>

\* call_list_win_handle_key, ACTION_SELECT: the call under the cursor enters
\* or leaves the group. g_ptr_array_index checks no bound: with cur_idx
\* outside dcalls the pointer read is whatever lies there (garbage), a call
\* pointer or not (0).
call_list_win_handle_key_select(garbage) ==
    /\ ~menu_active
    /\ Len(dcalls) # 0
    /\ LET inside == cur_idx >= 0 /\ cur_idx < Len(dcalls)
           call == IF inside THEN dcalls[cur_idx + 1] ELSE garbage IN
       /\ inside => garbage = 0
       /\ group' = IF call \in group THEN group \ {call} ELSE group \cup {call}
       /\ win_fault' = (win_fault \/ ~inside)
    /\ UNCHANGED <<calls, created, dcalls, cur_idx, first_idx, vscroll_pos, autoscroll,
                   sort_asc, capVars, sdpVars, uiVars>>

\* call_list_win_clear: what it leaves in vscroll.pos, cur_idx and the group.
call_list_win_clear ==
    /\ vscroll_pos' = 0
    /\ cur_idx' = 0
    /\ group' = {}

\* call_list_win_handle_key, ACTION_CLEAR: call_group_remove_all.
call_list_win_handle_key_clear ==
    /\ ~menu_active
    /\ group # {}
    /\ group' = {}
    /\ UNCHANGED <<calls, created, dcalls, cur_idx, first_idx, vscroll_pos, autoscroll,
                   sort_asc, win_fault, capVars, sdpVars, uiVars>>

\* call_list_win_handle_key, ACTION_CLEAR_CALLS
call_list_win_handle_key_clear_calls ==
    /\ ~menu_active
    /\ calls' = storage_calls_clear
    /\ xcalls' = PurgeXcalls(storage_calls_clear)
    /\ call_list_win_clear
    /\ UNCHANGED <<created, dcalls, first_idx, autoscroll, sort_asc, win_fault,
                   capVars, sdpVars, handed, hscroll_pos, hscroll_max, menu_active>>

\* call_list_win_handle_key, ACTION_CLEAR_CALLS_SOFT
call_list_win_handle_key_clear_calls_soft ==
    /\ ~menu_active
    /\ calls' = storage_calls_clear_soft
    /\ xcalls' = PurgeXcalls(storage_calls_clear_soft)
    /\ call_list_win_clear
    /\ UNCHANGED <<created, dcalls, first_idx, autoscroll, sort_asc, win_fault,
                   capVars, sdpVars, handed, hscroll_pos, hscroll_max, menu_active>>

\* call_list_win_handle_key, ACTION_AUTOSCROLL
call_list_win_handle_key_autoscroll ==
    /\ ~menu_active
    /\ autoscroll' = ~autoscroll
    /\ UNCHANGED <<calls, created, dcalls, group, cur_idx, first_idx, vscroll_pos,
                   sort_asc, win_fault, capVars, sdpVars, uiVars>>

\* call_list_win_handle_key, ACTION_SORT_SWAP
call_list_win_handle_key_sort_swap ==
    /\ ~menu_active
    /\ sort_asc' = ~sort_asc
    /\ UNCHANGED <<calls, created, dcalls, group, cur_idx, first_idx, vscroll_pos,
                   autoscroll, win_fault, capVars, sdpVars, uiVars>>

\* call_list_win_resize: the window is cleared.
call_list_win_resize ==
    /\ call_list_win_clear
    /\ UNCHANGED <<calls, created, dcalls, first_idx, autoscroll, sort_asc, win_fault,
                   capVars, sdpVars, uiVars>>

\* call_list_win_handle_key, ACTION_SORT_NEXT and ACTION_SORT_PREV:
\* call_list_select_sort_attribute posts the sort menu.
call_list_win_handle_key_sort_menu ==
    /\ ~menu_active
    /\ menu_active' = TRUE
    /\ UNCHANGED <<calls, created, dcalls, group, cur_idx, first_idx, vscroll_pos,
                   autoscroll, sort_asc, win_fault, capVars, sdpVars, xcalls, handed,
                   hscroll_pos, hscroll_max>>

\* call_list_handle_menu_key, which call_list_win_handle_key returns through
\* while the sort menu is posted. ACTION_CONFIRM and ACTION_SELECT sort by the
\* chosen attribute, or swap the order when it is the current one (same), and
\* like ACTION_PREV_SCREEN remove the menu; the moves stay inside the menu.
call_list_handle_menu_key(action, same) ==
    /\ menu_active
    /\ action \in {"ACTION_DOWN", "ACTION_UP", "ACTION_NPAGE", "ACTION_PPAGE",
                   "ACTION_CONFIRM", "ACTION_SELECT", "ACTION_PREV_SCREEN"}
    /\ same => action \in {"ACTION_CONFIRM", "ACTION_SELECT"}
    /\ sort_asc' = IF same THEN ~sort_asc ELSE sort_asc
    /\ menu_active' = (action \in {"ACTION_DOWN", "ACTION_UP", "ACTION_NPAGE", "ACTION_PPAGE"})
    /\ UNCHANGED <<calls, created, dcalls, group, cur_idx, first_idx, vscroll_pos,
                   autoscroll, win_fault, capVars, sdpVars, xcalls, handed,
                   hscroll_pos, hscroll_max>>

\* call->xcalls of a stored call
Xcalls(call) == {p[2] : p \in {q \in xcalls : q[1] = call}}

\* The index cur_idx lies inside dcalls.
CurInside == cur_idx >= 0 /\ cur_idx < Len(dcalls)

\* g_ptr_array_index(self->dcalls, self->cur_idx): no bound is checked, and
\* outside the array the pointer read is whatever lies there (gcall).
CurCall(gcall) == IF CurInside THEN dcalls[cur_idx + 1] ELSE gcall

\* ACTION_SHOW_FLOW, ACTION_SHOW_FLOW_EX and ACTION_SHOW_RAW, the same code in
\* call_list_win_handle_key and in call_list_win_handle_action: the window
\* created and the group it is handed. The group is a clone of the selection,
\* or the call under the cursor when nothing is selected; the extended flow
\* adds call->xcalls and takes call->callid (a call is named by its pointer
\* here). A call that storage has freed, or a pointer read outside dcalls, has
\* any xcalls (gx).
ShowGroup(action, gcall, gx) ==
    LET call == CurCall(gcall)
        cx == IF CurInside /\ call \in Stored THEN Xcalls(call) ELSE gx
        picked == IF group = {} THEN {call} ELSE group IN
    [window |-> IF action = "ACTION_SHOW_RAW" THEN "WINDOW_CALL_RAW" ELSE "WINDOW_CALL_FLOW",
     group |-> IF action = "ACTION_SHOW_FLOW_EX" THEN picked \cup cx ELSE picked,
     callid |-> IF action = "ACTION_SHOW_FLOW_EX" THEN call ELSE NullPtr]

\* The values a read through dcalls[cur_idx] may be given: none when the call
\* read is a stored one.
GarbageFits(gcall, gx) ==
    /\ CurInside => gcall = 0
    /\ (CurInside /\ dcalls[cur_idx + 1] \in Stored) => gx = {}

ShowActions == {"ACTION_SHOW_FLOW", "ACTION_SHOW_FLOW_EX", "ACTION_SHOW_RAW"}

\* call_list_win_handle_key, ACTION_SHOW_FLOW, ACTION_SHOW_FLOW_EX and
\* ACTION_SHOW_RAW.
call_list_win_handle_key_show(action, gcall, gx) ==
    /\ ~menu_active
    /\ action \in ShowActions
    /\ Len(dcalls) # 0
    /\ GarbageFits(gcall, gx)
    /\ handed' = <<ShowGroup(action, gcall, gx)>>
    /\ win_fault' = (win_fault \/ ~(CurInside /\ CurCall(gcall) \in Stored))
    /\ UNCHANGED <<calls, created, dcalls, group, cur_idx, first_idx, vscroll_pos,
                   autoscroll, sort_asc, capVars, sdpVars, xcalls, hscroll_pos,
                   hscroll_max, menu_active>>

\* call_list_win_handle_action(sender, action): the groups it hands to other
\* windows. It has cases for the show actions; ACTION_CLEAR_CALLS and
\* ACTION_CLEAR_CALLS_SOFT fall to its default case.
call_list_win_handle_action(action, gcall, gx) ==
    IF action \in ShowActions /\ Len(dcalls) # 0
    THEN <<ShowGroup(action, gcall, gx)>>
    ELSE <<>>

\* The items of the "Call List" menu of the menu bar.
MenuListItems == {"Clear List", "Clear filtered calls", "Show Call Flow",
                  "Show Call Flow Extended"}

\* menu_item_set_action in call_list_win_constructed
MenuItemAction(item) ==
    CASE item = "Clear List" -> "ACTION_CLEAR_CALLS"
      [] item = "Clear filtered calls" -> "ACTION_CLEAR_CALLS_SOFT"
      [] item = "Show Call Flow" -> "ACTION_SHOW_FLOW"
      [] item = "Show Call Flow Extended" -> "ACTION_SHOW_FLOW_EX"

\* g_signal_connect(item, "activate", call_list_win_handle_action, action) in
\* call_list_win_constructed: the actions connected to each item, in the
\* order of connection. The connection made for "Show Call Flow Extended" is
\* made on menu_list_flow.
MenuItemConnected(item) ==
    CASE item = "Clear List" -> <<"ACTION_CLEAR_CALLS">>
      [] item = "Clear filtered calls" -> <<"ACTION_CLEAR_CALLS_SOFT">>
      [] item = "Show Call Flow" -> <<"ACTION_SHOW_FLOW", "ACTION_SHOW_FLOW_EX">>
      [] item = "Show Call Flow Extended" -> <<>>

\* What the handlers connected to an item hand to other windows, in order.
RECURSIVE ActivateHands(_, _, _)
ActivateHands(actions, gcall, gx) ==
    IF Len(actions) = 0 THEN <<>>
    ELSE call_list_win_handle_action(actions[1], gcall, gx)
             \o ActivateHands(Tail(actions), gcall, gx)

\* The "activate" signal of a menu item: every connected handler runs.
menu_item_activate(item, gcall, gx) ==
    /\ item \in MenuListItems
    /\ GarbageFits(gcall, gx)
    /\ LET h == ActivateHands(MenuItemConnected(item), gcall, gx) IN
       /\ handed' = IF Len(h) = 0 THEN handed ELSE h
       /\ win_fault' = (win_fault \/ (Len(h) # 0 /\ ~(CurInside /\ CurCall(gcall) \in Stored)))
    /\ UNCHANGED <<calls, created, dcalls, group, cur_idx, first_idx, vscroll_pos,
                   autoscroll, sort_asc, capVars, sdpVars, xcalls, hscroll_pos,
                   hscroll_max, menu_active>>

\* ------------------------------------------------------ the specification
NoFilterCall == [mgr |-> NullPtr, expr |-> NullStr, ok |-> TRUE]

\* No packet is being dissected.
SdpIdle ==
    /\ sdp_lines = <<>>
    /\ sdp_i = 1
    /\ sdp_media = NullPtr
    /\ sdp = [sconn |-> NullText, medias |-> <<>>]
    /\ fmt_heap = <<>>
    /\ formats_written = <<>>
    /\ sdp_pc = "idle"
    /\ sdp_fault = FALSE
    /\ packet = [PACKET_PROTO_SDP |-> FALSE]
    /\ sdp_ret = "none"
    /\ sdp_freed = <<>>

\* The fields of the window that call_list_win_constructed leaves zeroed, and
\* no call related to another.
UiIdle ==
    /\ xcalls = {}
    /\ handed = <<>>
    /\ hscroll_pos = 0
    /\ hscroll_max = 0
    /\ menu_active = FALSE

\* No call list window: the fields as g_object_new zeroes them, no call stored.
WinIdle ==
    /\ calls = <<>>
    /\ created = 0
    /\ dcalls = <<>>
    /\ group = {}
    /\ cur_idx = 0
    /\ first_idx = 0
    /\ vscroll_pos = 0
    /\ autoscroll = FALSE
    /\ sort_asc = TRUE
    /\ win_fault = FALSE
    /\ UiIdle

\* The process before its first capture_manager_new.
Init ==
    /\ manager = NullPtr
    /\ freed = {}
    /\ managers = <<>>
    /\ input = <<>>
    /\ output = <<>>
    /\ callerPc = "idle"
    /\ callerMgr = NullPtr
    /\ callerIdx = 1
    /\ set_filter_ret = NoFilterCall
    /\ SdpIdle
    /\ WinIdle

\* The process after main() has called capture_manager_new once.
InitOne ==
    /\ manager = 1
    /\ freed = {}
    /\ managers = <<NewManager>>
    /\ input = <<>>
    /\ output = <<>>
    /\ callerPc = "idle"
    /\ callerMgr = NullPtr
    /\ callerIdx = 1
    /\ set_filter_ret = NoFilterCall
    /\ SdpIdle
    /\ WinIdle

StopNext ==
    \/ capture_manager_stop_inputs
    \/ capture_manager_stop_outputs
    \/ capture_manager_stop_quit
    \/ capture_manager_stop_join

WorkerNext(m) ==
    \/ capture_manager_thread(m)
    \/ \E k \in 1..MaxInputs, d \in BOOLEAN : WorkerReadFrame(m, k, d)
    \/ \E k \in 1..MaxInputs : WorkerEof(m, k)
    \/ capture_manager_output_packet(m)
    \/ WorkerExit(m)

\* Spec: managers, their inputs and outputs, and the threads of start and stop.
Next ==
    \/ capture_manager_new
    \/ \E m \in ManagerIds, in \in InputChoices : capture_manager_add_input(m, in)
    \/ \E m \in ManagerIds : capture_manager_add_output(m)
    \/ \E m \in ManagerIds : capture_manager_start(m)
    \/ \E m \in ManagerIds : capture_manager_stop(m)
    \/ StopNext
    \/ \E m \in ManagerIds : WorkerNext(m)

Spec == Init /\ [][Next]_vars

\* The threads take their steps: the caller's thread goes on inside
\* capture_manager_stop, and a worker thread that can run does run.
FairSpec ==
    /\ Spec
    /\ WF_vars(StopNext)
    /\ \A m \in 1..MaxManagers : WF_vars(m \in ManagerIds /\ WorkerNext(m))

\* SpecStatus: the one manager of the process with what the status queries
\* read: its inputs, their sources (destroyed by stop or at end of file) and
\* the paused flag.
NextStatus ==
    \/ \E in \in InputChoices : capture_manager_add_input(manager, in)
    \/ \E b \in BOOLEAN : capture_manager_set_pause(manager, b)
    \/ capture_manager_toggle_pause(manager)
    \/ capture_manager_start(manager)
    \/ capture_manager_stop(manager)
    \/ StopNext
    \/ WorkerNext(manager)

SpecStatus == InitOne /\ [][NextStatus]_vars

\* SpecStatus with the threads taking their steps, as in FairSpec.
FairSpecStatus ==
    /\ SpecStatus
    /\ WF_vars(StopNext)
    /\ WF_vars(WorkerNext(manager))

\* SpecPause: managers, their inputs, the paused flag and the threads of
\* start and stop.
NextPause ==
    \/ capture_manager_new
    \/ \E m \in ManagerIds, in \in InputChoices : capture_manager_add_input(m, in)
    \/ \E m \in ManagerIds, b \in BOOLEAN : capture_manager_set_pause(m, b)
    \/ \E m \in ManagerIds : capture_manager_toggle_pause(m)
    \/ \E m \in ManagerIds : capture_manager_start(m)
    \/ \E m \in ManagerIds : capture_manager_stop(m)
    \/ StopNext
    \/ \E m \in ManagerIds : WorkerNext(m)

SpecPause == Init /\ [][NextPause]_vars

\* SpecFree: managers allocated and released by the caller's thread, with
\* their inputs and paused flags; no worker thread is started.
NextFree ==
    \/ capture_manager_new
    \/ \E m \in ManagerIds \ freed, in \in InputChoices : capture_manager_add_input(m, in)
    \/ \E m \in ManagerIds \ freed, b \in BOOLEAN : capture_manager_set_pause(m, b)
    \/ \E m \in ManagerIds \ freed, e \in Exprs : capture_manager_set_filter(m, e)
    \/ \E m \in ManagerIds : capture_manager_free(m)

SpecFree == Init /\ [][NextFree]_vars

\* SpecFilter: the one manager of the process, its inputs and the capture
\* filter.
NextFilter ==
    \/ \E in \in InputChoicesFilter : capture_manager_add_input(manager, in)
    \/ \E e \in Exprs : capture_manager_set_filter(manager, e)

SpecFilter == InitOne /\ [][NextFilter]_vars

\* SpecSdp: the SDP dissector run on one body.
InitSdp ==
    /\ manager = NullPtr
    /\ freed = {}
    /\ managers = <<>>
    /\ input = <<>>
    /\ output = <<>>
    /\ callerPc = "idle"
    /\ callerMgr = NullPtr
    /\ callerIdx = 1
    /\ set_filter_ret = NoFilterCall
    /\ sdp_lines \in SdpBodies
    /\ sdp_i = 1
    /\ sdp_media = NullPtr
    /\ sdp = [sconn |-> NullText, medias |-> <<>>]
    /\ fmt_heap = <<>>
    /\ formats_written = <<>>
    /\ sdp_pc = "start"
    /\ sdp_fault = FALSE
    /\ packet = [PACKET_PROTO_SDP |-> FALSE]
    /\ sdp_ret = "none"
    /\ sdp_freed = <<>>
    /\ WinIdle

NextSdp ==
    \/ packet_dissector_sdp_dissect
    \/ \E trap \in BOOLEAN : packet_dissector_sdp_dissect_line(trap)
    \/ packet_dissector_sdp_dissect_return

SpecSdp == InitSdp /\ [][NextSdp]_vars

\* packet_sdp_format_free releasing every record of the list.
packet_sdp_format_free_all(format) == TRUE

\* packet_sdp_format_free: is the record released, that is, is its id none of
\* formats[].
packet_sdp_format_free(format) ==
    packet_sdp_standard_format(FormatAt(format).id) = NullPtr

\* packet_sdp_media_free: the PacketSdpFormat pointers g_list_free_full has
\* packet_sdp_format_free release, in list order.
packet_sdp_media_free(media) == SelectSeq(media.formats, packet_sdp_format_free)

\* g_list_free_full(sdp_data->medias, packet_sdp_media_free) from media i on.
RECURSIVE MediasFreeLoop(_, _)
MediasFreeLoop(medias, i) ==
    IF i > Len(medias) THEN <<>>
    ELSE packet_sdp_media_free(medias[i]) \o MediasFreeLoop(medias, i + 1)

\* packet_dissector_sdp_free, called once when the packet is released: it
\* returns at once for a packet without SDP data.
packet_dissector_sdp_free ==
    /\ sdp_pc = "done"
    /\ sdp_pc' = "freed"
    /\ sdp_freed' = IF packet.PACKET_PROTO_SDP THEN MediasFreeLoop(sdp.medias, 1) ELSE <<>>
    /\ UNCHANGED <<sdp_lines, sdp_i, sdp_media, sdp, fmt_heap, formats_written, sdp_fault, packet, sdp_ret, capVars, winVars>>

\* A packet is dissected and then released.
NextSdpFree ==
    \/ packet_dissector_sdp_dissect
    \/ \E trap \in BOOLEAN : packet_dissector_sdp_dissect_line(trap)
    \/ packet_dissector_sdp_dissect_return
    \/ packet_dissector_sdp_free

SpecSdpFree == InitSdp /\ [][NextSdpFree]_vars

\* SpecWin: the call list window as call_list_win_init and
\* call_list_win_constructed leave it (autoscroll and the sort order come
\* from the settings), the keys it handles, its draws, and storage taking
\* calls in on the worker thread, one call less than in SpecAuto.
InitWin ==
    /\ manager = NullPtr
    /\ freed = {}
    /\ managers = <<>>
    /\ input = <<>>
    /\ output = <<>>
    /\ callerPc = "idle"
    /\ callerMgr = NullPtr
    /\ callerIdx = 1
    /\ set_filter_ret = NoFilterCall
    /\ SdpIdle
    /\ calls = <<>>
    /\ created = 0
    /\ dcalls = <<>>
    /\ group = {}
    /\ cur_idx = 0
    /\ first_idx = 0
    /\ vscroll_pos = 0
    /\ autoscroll \in BOOLEAN
    /\ sort_asc \in BOOLEAN
    /\ win_fault = FALSE
    /\ UiIdle

NextWin ==
    \/ /\ created < MaxCalls - 1
       /\ \E shown \in BOOLEAN, evict \in BOOLEAN : storage_add_call(shown, evict)
    \/ storage_evict
    \/ call_list_win_draw_list(ColumnsWidth)
    \/ \E a \in MoveActions, ovf \in {"wrap", "saturate"} :
          call_list_win_handle_key_move(a, ovf)
    \/ \E g \in 0..MaxCalls : call_list_win_handle_key_select(g)
    \/ call_list_win_handle_key_clear
    \/ call_list_win_handle_key_clear_calls
    \/ call_list_win_handle_key_clear_calls_soft
    \/ call_list_win_handle_key_autoscroll
    \/ call_list_win_handle_key_sort_swap
    \/ call_list_win_handle_key_sort_menu
    \/ \E a \in {"ACTION_DOWN", "ACTION_SELECT", "ACTION_PREV_SCREEN"}, same \in BOOLEAN :
          call_list_handle_menu_key(a, same)
    \/ call_list_win_resize

SpecWin == InitWin /\ [][NextWin]_vars

\* SpecAuto: the call list window scrolled up and down, by keys and by
\* autoscroll, while storage takes calls in and evicts them; no call is
\* selected and the sort menu stays closed.
NextAuto ==
    \/ \E shown \in BOOLEAN, evict \in BOOLEAN : storage_add_call(shown, evict)
    \/ storage_evict
    \/ call_list_win_draw_list(ColumnsWidth)
    \/ \E a \in MoveActions, ovf \in {"wrap", "saturate"} :
          call_list_win_handle_key_move(a, ovf)
    \/ call_list_win_handle_key_clear_calls
    \/ call_list_win_handle_key_autoscroll
    \/ call_list_win_handle_key_sort_swap
    \/ call_list_win_resize

SpecAuto == InitWin /\ [][NextAuto]_vars

\* SpecFlow: the call list window with calls related to one another, the
\* keys that select calls and open the flow and raw windows, and the items
\* of the "Call List" menu. The window is followed up to its first read
\* outside dcalls or through the pointer of a call storage has freed, and
\* storage takes in one call less than in SpecWin.
\* What a read outside dcalls, or of a freed call, can give: a pointer that is
\* NULL or one of the calls of SpecFlow, and any set of these calls.
Garbage == 0..(MaxCalls - 1)
GarbageSets == SUBSET (1..(MaxCalls - 1))

InitFlow ==
    /\ InitWin
    /\ ~autoscroll
    /\ sort_asc

NextFlow ==
    \/ /\ ~win_fault
       /\ created < MaxCalls - 1
       /\ \E shown \in BOOLEAN, evict \in BOOLEAN : storage_add_call(shown, evict)
    \/ /\ ~win_fault
       /\ \E a \in Stored, b \in Stored : storage_link(a, b)
    \/ /\ ~win_fault
       /\ call_list_win_draw_list(ColumnsWidth)
    \/ /\ ~win_fault
       /\ \E a \in {"ACTION_DOWN", "ACTION_UP"} : call_list_win_handle_key_move(a, "wrap")
    \/ /\ ~win_fault
       /\ \E g \in Garbage : call_list_win_handle_key_select(g)
    \/ /\ ~win_fault
       /\ \E a \in ShowActions, g \in Garbage, gx \in GarbageSets :
             call_list_win_handle_key_show(a, g, gx)
    \/ /\ ~win_fault
       /\ \E item \in MenuListItems, g \in Garbage, gx \in GarbageSets :
             menu_item_activate(item, g, gx)
    \/ /\ ~win_fault
       /\ call_list_win_handle_key_clear_calls
    \/ /\ ~win_fault
       /\ call_list_win_handle_key_clear_calls_soft

SpecFlow == InitFlow /\ [][NextFlow]_vars

\* SpecScroll: the call list window scrolled sideways, drawn with the
\* columns the user has configured at the time, and resized.
ColumnsWidths == {ColumnsWidth - 3, ColumnsWidth, ColumnsWidth + 3}

NextScroll ==
    \/ \E shown \in BOOLEAN : storage_add_call(shown, FALSE)
    \/ \E padw \in ColumnsWidths : call_list_win_draw_list(padw)
    \/ \E a \in {"ACTION_RIGHT", "ACTION_LEFT"} : call_list_win_handle_key_horizontal(a)
    \/ \E a \in {"ACTION_DOWN", "ACTION_UP"} : call_list_win_handle_key_move(a, "wrap")
    \/ call_list_win_handle_key_sort_menu
    \/ call_list_handle_menu_key("ACTION_PREV_SCREEN", FALSE)

SpecScroll == InitWin /\ [][NextScroll]_vars

\* =================================================== packet_sdp.c, claims
\* C1: no attribute line makes the dissector access a media descriptor that
\* does not exist (before any m= line, or after an m= line that was
\* rejected), and dissection is never cut short by it.
C1_NoMissingMediaAccess == ~sdp_fault /\ sdp_pc # "killed"

\* ====================================================== capture.c, claims
\* The managers that were allocated and not released.
LiveManagers == ManagerIds \ freed

InputsOf(m) == {managers[m].inputs[k] : k \in 1..Len(managers[m].inputs)}
OutputsOf(m) == {managers[m].outputs[k] : k \in 1..Len(managers[m].outputs)}

\* C2: capture_output_write is never invoked on an output after
\* capture_output_close was invoked on it, whatever the interleaving of the
\* worker's capture_manager_output_packet with capture_manager_stop.
C2_NoWriteAfterClose == \A o \in 1..Len(output) : ~output[o].late

RECURSIVE SumOver(_, _)
SumOver(S, field) ==
    IF S = {} THEN 0
    ELSE LET i == CHOOSE x \in S : TRUE IN
         (IF field = "total" THEN input[i].total ELSE input[i].loaded)
             + SumOver(S \ {i}, field)

OfflineOf(m) == {i \in InputsOf(m) : input[i].mode = CAPTURE_MODE_OFFLINE}

\* C3: capture_manager_load_progress never fails, returns a value in 0..100,
\* and the value is floor(100 * loaded / total) summed over the offline
\* inputs only.
C3_LoadProgressInRange ==
    \A m \in ManagerIds : \A r \in capture_manager_load_progress(m) :
        /\ ~r.trap
        /\ r.value \in 0..100
        /\ SumOver(OfflineOf(m), "total") > 0 =>
              r.value = (100 * SumOver(OfflineOf(m), "loaded"))
                            \div SumOver(OfflineOf(m), "total")

\* C4: a capture_manager_set_filter call whose expression an attached input
\* rejects returns FALSE and leaves manager->filter unset.
C4_FailedFilterUnset ==
    [][\A e \in Exprs :
          (/\ capture_manager_set_filter(manager, e)
           /\ \E i \in InputsOf(manager) : e \notin input[i].accepts)
          => (/\ set_filter_ret' = [mgr |-> manager, expr |-> e, ok |-> FALSE]
              /\ managers'[manager].filter = NullStr)]_vars

\* C4 happens: "vlan" was rejected after "udp" had been installed.
C4_Witness ==
    /\ set_filter_ret = [mgr |-> manager, expr |-> "vlan", ok |-> FALSE]
    /\ \E i \in InputsOf(manager) : input[i].filter = "udp"
    /\ capture_manager_filter(manager) = NullStr

\* C5: at any moment every attached input carries the manager's current
\* filter string, inputs attached after a successful set_filter included.
C5_InputsCarryFilter ==
    \A m \in ManagerIds :
        capture_manager_filter(m) # NullStr =>
            \A i \in InputsOf(m) : input[i].filter = capture_manager_filter(m)

\* C6: after capture_manager_start, a capture_manager_stop that was entered
\* returns (its g_thread_join comes back), whatever the interleaving.
C6_StopReturns ==
    (callerPc # "idle" /\ managers[callerMgr].thread # "none") ~> (callerPc = "idle")

AllDestroyed(m) == \A i \in InputsOf(m) : input[i].destroyed
AllClosed(m) == \A o \in OutputsOf(m) : output[o].closed

\* C7: capture_manager_stop closes outputs only once every input source is
\* destroyed, quits the loop only once every output is closed, then joins;
\* when it returns every input source is destroyed and capture_is_running()
\* is FALSE.
C7_StopOrderAndResult ==
    [][/\ callerPc' \in {"stop_outputs", "stop_quit", "stop_join"} => AllDestroyed(callerMgr)'
       /\ callerPc' \in {"stop_quit", "stop_join"} => AllClosed(callerMgr)'
       /\ (callerPc = "stop_join" /\ callerPc' = "idle") =>
              (AllDestroyed(callerMgr)' /\ ~capture_is_running')]_vars

\* C8: capture_status_desc is determined by the input modes, the sources'
\* destroyed state and the paused flag, as the claim lists.
C8_StatusDesc ==
    LET ins == InputsOf(manager)
        live == {i \in ins : input[i].mode # CAPTURE_MODE_OFFLINE}
        off == ins \ live
        mode == IF ins # {} /\ off = {} THEN "Online"
                ELSE IF ins # {} /\ live = {} THEN "Offline"
                ELSE "Mixed"
        qual == IF managers[manager].paused THEN "Paused"
                ELSE IF \E i \in off : ~input[i].destroyed THEN "Loading"
                ELSE ""
    IN capture_status_desc(manager) = <<mode, qual>>

\* C8 happens: paused while an offline input is still loading beside a live one.
C8_Witness ==
    /\ managers[manager].paused
    /\ \E i \in InputsOf(manager) :
          input[i].mode = CAPTURE_MODE_OFFLINE /\ ~input[i].destroyed
    /\ \E i \in InputsOf(manager) : input[i].mode = CAPTURE_MODE_ONLINE
    /\ capture_status_desc(manager) = <<"Mixed", "Paused">>

\* C9: capture_is_online is TRUE iff no attached input is offline, the empty
\* list included, whatever the paused flag and the sources' state.
C9_IsOnline ==
    capture_is_online(manager) =
        (\A i \in InputsOf(manager) : input[i].mode # CAPTURE_MODE_OFFLINE)

\* C9 happens: an offline input behind a live one, paused, a source destroyed.
C9_Witness ==
    /\ Len(managers[manager].inputs) = 2
    /\ input[managers[manager].inputs[1]].mode = CAPTURE_MODE_ONLINE
    /\ input[managers[manager].inputs[2]].mode = CAPTURE_MODE_OFFLINE
    /\ input[managers[manager].inputs[1]].destroyed
    /\ managers[manager].paused
    /\ ~capture_is_online(manager)

\* C10: there are never two live managers, and capture_manager_get_instance
\* returns the one there is.
C10_SingleManager ==
    /\ Cardinality(LiveManagers) <= 1
    /\ \A m \in LiveManagers : capture_manager_get_instance = m

\* What a pause call must leave alone in manager m: the loop, the lists, the
\* filter, every input and output.
PauseFrame(m) ==
    /\ input' = input
    /\ output' = output
    /\ managers'[m].inputs = managers[m].inputs
    /\ managers'[m].outputs = managers[m].outputs
    /\ managers'[m].filter = managers[m].filter
    /\ managers'[m].is_running = managers[m].is_running
    /\ managers'[m].thread = managers[m].thread
    /\ capture_is_running' = capture_is_running

\* C11: capture_manager_set_pause(b) makes capture_is_paused() return b,
\* capture_manager_toggle_pause inverts what capture_is_paused() returns, and
\* neither changes the loop, an input source, the lists, the filter or
\* capture_is_running().
C11_PauseOnlyPaused ==
    [][\A m \in ManagerIds :
          /\ \A b \in BOOLEAN :
                capture_manager_set_pause(m, b) => (capture_is_paused' = b /\ PauseFrame(m))
          /\ capture_manager_toggle_pause(m) =>
                (capture_is_paused' = ~capture_is_paused /\ PauseFrame(m))]_vars

\* Every offline input of the manager has its source destroyed.
OfflineDestroyed(m) == \A i \in OfflineOf(m) : input[i].destroyed

Loading(m) == capture_status_desc(m)[2] = "Loading"

\* C12, as stated: once every offline input's source is destroyed and the
\* manager is not paused, capture_status_desc never again reports Loading;
\* and once all sources are destroyed capture_is_running() is FALSE and
\* stays FALSE as long as no input is attached.
C12_NeverLoadingAgain ==
    /\ []((/\ OfflineOf(manager) # {}
            /\ OfflineDestroyed(manager)
            /\ ~managers[manager].paused) => []~Loading(manager))
    /\ [](AllDestroyed(manager) => ~capture_is_running)
    /\ [][(AllDestroyed(manager) /\ managers'[manager].inputs = managers[manager].inputs)
             => ~capture_is_running']_vars

\* C12, amended: while every offline input's source is destroyed and the
\* manager is not paused, capture_status_desc does not report Loading, and
\* only attaching an input ends that; once all sources are destroyed
\* capture_is_running() is FALSE and stays FALSE as long as no input is
\* attached.
C12_NotLoadingUntilAttach ==
    /\ []((OfflineDestroyed(manager) /\ ~managers[manager].paused) => ~Loading(manager))
    /\ [][(OfflineDestroyed(manager) /\ managers'[manager].inputs = managers[manager].inputs)
             => OfflineDestroyed(manager)']_vars
    /\ [](AllDestroyed(manager) => ~capture_is_running)
    /\ [][(AllDestroyed(manager) /\ managers'[manager].inputs = managers[manager].inputs)
             => ~capture_is_running']_vars

\* C12 happens: the worker has read an offline file to its end and the
\* source destroyed itself, the loop still running; a live input beside it
\* was stopped by hand.
C12_Witness ==
    /\ managers[manager].thread = "loop"
    /\ ~managers[manager].paused
    /\ \E i \in OfflineOf(manager) : input[i].destroyed /\ input[i].loaded = input[i].total
    /\ AllDestroyed(manager)
    /\ capture_status_desc(manager) = <<"Offline", "">>
    /\ ~capture_is_running

\* ------------------------------------------- the two threads' accesses
\* What the presentation thread's next step can read or write: between calls
\* it can redraw the header (capture_status_desc reads the input list, the
\* destroyed state of the offline sources and the paused flag), take the
\* pause key (manager->paused is written) or attach an input; inside
\* capture_manager_stop it writes the destroyed state of the source it has
\* reached.
PresentationAccess ==
    (IF callerPc = "idle" /\ manager # NullPtr
     THEN {[loc |-> <<"paused", manager>>, write |-> TRUE],
           [loc |-> <<"paused", manager>>, write |-> FALSE],
           [loc |-> <<"inputs", manager>>, write |-> TRUE],
           [loc |-> <<"inputs", manager>>, write |-> FALSE]}
          \cup {[loc |-> <<"destroyed", i>>, write |-> FALSE] : i \in OfflineOf(manager)}
     ELSE {})
    \cup
    (IF callerPc = "stop_inputs" /\ callerIdx <= Len(managers[callerMgr].inputs)
     THEN {[loc |-> <<"inputs", callerMgr>>, write |-> FALSE],
           [loc |-> <<"destroyed", managers[callerMgr].inputs[callerIdx]>>, write |-> TRUE]}
     ELSE {})

\* What the next step of manager m's worker thread can read or write: the
\* loop tests the destroyed state of a source before it dispatches it, the
\* frame it reads goes to storage, which drops it when the capture is paused,
\* and an offline source that is at its end destroys itself.
WorkerAccess(m) ==
    {[loc |-> <<"destroyed", managers[m].inputs[k]>>, write |-> FALSE] :
        k \in {j \in 1..Len(managers[m].inputs) :
                  \E d \in BOOLEAN : ENABLED WorkerReadFrame(m, j, d)}}
    \cup
    {[loc |-> <<"paused", m>>, write |-> FALSE] :
        k \in {j \in 1..Len(managers[m].inputs) :
                  \E d \in BOOLEAN : ENABLED WorkerReadFrame(m, j, d)}}
    \cup
    {[loc |-> <<"destroyed", managers[m].inputs[k]>>, write |-> TRUE] :
        k \in {j \in 1..Len(managers[m].inputs) : ENABLED WorkerEof(m, j)}}

\* C13: the paused flag, the input list and the destroyed state of the
\* sources are never about to be written by one of the two threads while the
\* other is about to read or write them.
C13_OnlyStorageShared ==
    \A m \in ManagerIds : \A a \in PresentationAccess, b \in WorkerAccess(m) :
        a.loc = b.loc => (~a.write /\ ~b.write)

\* =================================================== packet_sdp.c, claims
\* The line the dissector is about to read.
SdpLine == sdp_lines[sdp_i]

\* A step of the dissect loop that reads line l.
SdpReads(l) ==
    /\ sdp_pc = "lines"
    /\ sdp_i <= Len(sdp_lines)
    /\ SdpLine = l
    /\ sdp_i' = sdp_i + 1

\* The ids of the format records a media descriptor lists, in order, the
\* allocated records being those of heap.
FormatIdsWith(heap, md) ==
    [k \in 1..Len(md.formats) |->
        IF md.formats[k].tbl THEN formats(md.formats[k].at).id
        ELSE heap[md.formats[k].at].id]

FormatIds(md) == FormatIdsWith(fmt_heap, md)

\* What the m= lines of the bodies say: four fields or more, the media type
\* (0 audio, 1 video, -1 for a type that is not known), the port, the codes
\* of the format list.
MLineSays ==
    (SdpLineM1 :> [full |-> TRUE, type |-> 0, port |-> 4000, ids |-> <<0, 8>>])
    @@ (SdpLineM2 :> [full |-> TRUE, type |-> 1, port |-> 5000, ids |-> <<101>>])
    @@ (SdpLineM3 :> [full |-> TRUE, type |-> SDP_MEDIA_UNKNOWN, port |-> 6000, ids |-> <<8, 96>>])
    @@ (SdpLineMShort :> [full |-> FALSE, type |-> 0, port |-> 4000, ids |-> <<>>])

\* C14: an m= line of four fields or more appends exactly one media
\* descriptor with the line's type, port and one format per code in the
\* order listed; a shorter m= line appends none; and the body
\* c=IN IP4 10.0.0.1 / m=audio 4000 RTP/AVP 0 8 / a=rtpmap:0 PCMU/8000 ends
\* with one audio media, port 4000, two formats, the first named PCMU/8000.
C14_MediaLine ==
    /\ [][\A l \in DOMAIN MLineSays :
             SdpReads(l) =>
                IF MLineSays[l].full
                THEN /\ Len(sdp'.medias) = Len(sdp.medias) + 1
                     /\ SubSeq(sdp'.medias, 1, Len(sdp.medias)) = sdp.medias
                     /\ LET md == sdp'.medias[Len(sdp'.medias)] IN
                        /\ md.type = MLineSays[l].type
                        /\ md.rtpport = MLineSays[l].port
                        /\ FormatIdsWith(fmt_heap', md) = MLineSays[l].ids
                ELSE sdp'.medias = sdp.medias]_vars
    /\ []((sdp_pc = "done" /\ sdp_lines = <<SdpLineC1, SdpLineM1, SdpLineRtpmapStd>>) =>
            /\ Len(sdp.medias) = 1
            /\ sdp.medias[1].type = 0
            /\ sdp.medias[1].rtpport = 4000
            /\ Len(sdp.medias[1].formats) = 2
            /\ FormatAt(sdp.medias[1].formats[1]).name
                   = <<"P", "C", "M", "U", "/", "8", "0", "0", "0">>)

\* C14 happens: the example body was dissected to its end.
C14_Witness ==
    /\ sdp_pc = "done"
    /\ sdp_lines = <<SdpLineC1, SdpLineM1, SdpLineRtpmapStd>>
    /\ Len(sdp.medias) = 1
    /\ FormatIds(sdp.medias[1]) = <<0, 8>>

\* What the c= lines of the bodies say: the connection address.
CLineSays ==
    (SdpLineC1 :> <<"1", "0", ".", "0", ".", "0", ".", "1">>)
    @@ (SdpLineC2 :> <<"1", "0", ".", "0", ".", "0", ".", "2">>)

\* An m= line was read before the line the dissector is about to read.
AfterMLine == \E j \in 1..(sdp_i - 1) : sdp_lines[j][1] = "m"

\* The latest m= line read opened a media descriptor (it had four fields).
LatestMLineOpened ==
    LET js == {j \in 1..(sdp_i - 1) : sdp_lines[j][1] = "m"}
        last == CHOOSE j \in js : \A k \in js : k <= j IN
    js # {} /\ MLineSays[sdp_lines[last]].full

\* C15: a c= line before the first m= line sets the session connection and
\* no media; every media opened while a session connection is set gets the
\* address (session address, its own port); a c= line after an m= line
\* leaves the session connection and every other media as they were, and
\* gives the media of that m= line the connection and the address
\* (connection address, its own port).
C15_ConnectionScope ==
    [][/\ \A l \in DOMAIN CLineSays :
             SdpReads(l) =>
                IF ~AfterMLine
                THEN sdp'.sconn = CLineSays[l] /\ sdp'.medias = sdp.medias
                ELSE /\ sdp'.sconn = sdp.sconn
                     /\ Len(sdp'.medias) = Len(sdp.medias)
                     /\ \A k \in 1..(Len(sdp.medias) - 1) : sdp'.medias[k] = sdp.medias[k]
                     /\ LatestMLineOpened =>
                           LET n == Len(sdp.medias) IN
                           sdp'.medias[n] =
                               [sdp.medias[n] EXCEPT
                                   !.sconn = CLineSays[l],
                                   !.address = [ip |-> CLineSays[l],
                                                port |-> sdp.medias[n].rtpport]]
       /\ \A l \in DOMAIN MLineSays :
             (SdpReads(l) /\ MLineSays[l].full /\ sdp.sconn # NullText) =>
                sdp'.medias[Len(sdp'.medias)].address =
                    [ip |-> sdp.sconn, port |-> MLineSays[l].port]]_vars

\* What the a=rtpmap lines of the bodies say: three fields or more, the
\* payload code, the encoding name.
RtpmapSays ==
    (SdpLineRtpmapStd :> [full |-> TRUE, code |-> 0, name |-> <<"P", "C", "M", "U">>])
    @@ (SdpLineRtpmap101 :> [full |-> TRUE, code |-> 101, name |-> <<"t", "e", "l", "e", "p", "h", "o", "n", "e", "-", "e", "v", "e", "n", "t">>])
    @@ (SdpLineRtpmapShort :> [full |-> FALSE, code |-> 101, name |-> NullText])

\* The dissector is inside a media description: the latest m= line opened one.
InMedia == AfterMLine /\ LatestMLineOpened

\* The media descriptor of the latest m= line.
CurrentMedia == sdp.medias[Len(sdp.medias)]

\* The positions of code p in the format list of the current media.
Listed(p) == {k \in 1..Len(CurrentMedia.formats) : FormatIds(CurrentMedia)[k] = p}

\* Nothing of the SDP record, the format records or formats[] changes.
SdpSame == sdp' = sdp /\ fmt_heap' = fmt_heap /\ formats_written' = formats_written

\* The record at pointer f after the step.
FormatAtNext(f) ==
    IF f.tbl
    THEN (IF f.at \in DOMAIN formats_written' THEN formats_written'[f.at] ELSE FormatsTable[f.at])
    ELSE fmt_heap'[f.at]

\* C16, as stated: inside a media description whose format list has code p,
\* an a=rtpmap line for p leaves the record for p with the encoding name of
\* the line, whatever p is; an rtpmap for a code that is not listed and an
\* rtpmap of fewer than three fields change nothing.
C16_RtpmapNames ==
    [][\A l \in DOMAIN RtpmapSays :
          SdpReads(l) =>
             IF ~RtpmapSays[l].full THEN SdpSame
             ELSE InMedia =>
                  IF Listed(RtpmapSays[l].code) = {} THEN SdpSame
                  ELSE \E k \in Listed(RtpmapSays[l].code) :
                          FormatAtNext(CurrentMedia.formats[k]).name = RtpmapSays[l].name]_vars

\* A code of the table of standard formats.
Standard(p) == \E i \in 1..Len(FormatsTable) : FormatsTable[i].id = p

\* C16, amended: inside a media description whose format list has code p,
\* an a=rtpmap line for p that is not a standard code leaves the first
\* record for p of that media with the encoding name of the line as name
\* and alias, and changes nothing else; an rtpmap for a standard code, for a
\* code that is not listed, or of fewer than three fields changes nothing.
C16_RtpmapDynamic ==
    [][\A l \in DOMAIN RtpmapSays :
          SdpReads(l) =>
             IF ~RtpmapSays[l].full THEN SdpSame
             ELSE InMedia =>
                  IF Listed(RtpmapSays[l].code) = {} \/ Standard(RtpmapSays[l].code)
                  THEN SdpSame
                  ELSE LET k == CHOOSE j \in Listed(RtpmapSays[l].code) :
                                    \A h \in Listed(RtpmapSays[l].code) : j <= h
                           f == CurrentMedia.formats[k] IN
                       /\ ~f.tbl
                       /\ fmt_heap' = [fmt_heap EXCEPT ![f.at].name = RtpmapSays[l].name,
                                                        ![f.at].alias = RtpmapSays[l].name]
                       /\ sdp' = sdp
                       /\ formats_written' = formats_written]_vars

\* C16 happens: m=Video 5000 RTP/AVP 101 then a=rtpmap:101 telephone-event/8000
\* were read, and the record for 101 is named.
C16_Witness ==
    /\ sdp_pc = "done"
    /\ sdp_lines = <<SdpLineM2, SdpLineRtpmap101>>
    /\ FormatIds(sdp.medias[1]) = <<101>>
    /\ FormatAt(sdp.medias[1].formats[1]).name = <<"t", "e", "l", "e", "p", "h", "o", "n", "e", "-", "e", "v", "e", "n", "t">>

\* C17: of the codes listed on an m= line, one that is in the table of
\* standard formats yields the table's record for that id, with its name and
\* alias, and one that is not yields a record of its own, allocated by this
\* line, holding the id and no name or alias; in both cases the record's id
\* is the listed code.
C17_FormatRecords ==
    [][\A l \in DOMAIN MLineSays :
          (SdpReads(l) /\ MLineSays[l].full) =>
             LET md == sdp'.medias[Len(sdp'.medias)]
                 ids == MLineSays[l].ids IN
             /\ Len(md.formats) = Len(ids)
             /\ \A k \in 1..Len(ids) :
                   LET f == md.formats[k] IN
                   /\ FormatAtNext(f).id = ids[k]
                   /\ IF Standard(ids[k])
                      THEN /\ f.tbl
                           /\ FormatAtNext(f) = FormatsTable[f.at]
                           /\ FormatsTable[f.at].name # NullText
                           /\ FormatsTable[f.at].alias # NullText
                      ELSE /\ ~f.tbl
                           /\ f.at \notin DOMAIN fmt_heap
                           /\ \A h \in 1..Len(ids) : md.formats[h] = f => h = k
                           /\ fmt_heap'[f.at] =
                                  [id |-> ids[k], name |-> NullText, alias |-> NullText]]_vars

\* C17 happens: m=fax 6000 udptl 8 96 was read: the record of 8 is the
\* table's, that of 96 is new and has no name.
C17_Witness ==
    /\ sdp_i = 2
    /\ sdp_lines[1] = SdpLineM3
    /\ Len(sdp.medias) = 1
    /\ sdp.medias[1].formats[1].tbl
    /\ FormatAt(sdp.medias[1].formats[1]).alias = <<"g", "7", "1", "1", "a">>
    /\ ~sdp.medias[1].formats[2].tbl
    /\ FormatAt(sdp.medias[1].formats[2]) = [id |-> 96, name |-> NullText, alias |-> NullText]

\* C18: inside a media description, an a=rtcp line sets the RTCP port and an
\* a=channel line (the name in any case) the channel tag of the media of the
\* latest m= line, and nothing else of that media, of the earlier media or
\* of the format records changes; a line of another attribute changes
\* nothing.
C18_AttributeScope ==
    [][/\ (SdpReads(SdpLineRtcp) /\ InMedia) =>
             /\ sdp' = [sdp EXCEPT !.medias[Len(sdp.medias)].rtcpport = 4001]
             /\ fmt_heap' = fmt_heap
             /\ formats_written' = formats_written
       /\ (SdpReads(SdpLineChannel) /\ InMedia) =>
             /\ sdp' = [sdp EXCEPT !.medias[Len(sdp.medias)].channel = <<"a", "b", "@", "t", "t", "s">>]
             /\ fmt_heap' = fmt_heap
             /\ formats_written' = formats_written
       /\ SdpReads(SdpLinePtime) => SdpSame]_vars

\* C18 happens: a=rtcp:4001 after two m= lines set the RTCP port of the
\* second media and left the first as it was.
C18_Witness ==
    /\ sdp_pc = "done"
    /\ sdp_lines = <<SdpLineM1, SdpLineM2, SdpLineRtcp>>
    /\ sdp.medias[1].rtcpport = 0
    /\ sdp.medias[2].rtcpport = 4001
    /\ sdp.medias[2].rtpport = 5000

\* C19: the dissector is never cut short; when it has returned from a
\* non-empty body the packet holds the SDP record and none was returned;
\* when it has returned from an empty body the packet holds no record and
\* the input bytes were returned; no record is attached before the return.
C19_Terminal ==
    /\ sdp_pc # "killed"
    /\ sdp_pc = "done" =>
          IF Len(sdp_lines) = 0
          THEN ~packet.PACKET_PROTO_SDP /\ sdp_ret = "data"
          ELSE packet.PACKET_PROTO_SDP /\ sdp_ret = "NULL"
    /\ sdp_pc # "done" => (~packet.PACKET_PROTO_SDP /\ sdp_ret = "none")

\* ================================================ call_list_win.c, claims
\* C20: every call of the window's group, and every call a key handler can
\* take from dcalls, is retained by storage.
C20_GroupRetained ==
    /\ group \subseteq Stored
    /\ \A k \in 1..Len(dcalls) : dcalls[k] \in Stored

\* The call under the cursor, when the cursor is on a call storage retains.
OnStoredCall == CurInside /\ CurCall(NullPtr) \in Stored

\* The show key for action is handled in this step.
KeyShows(action) ==
    \E g \in Garbage, gx \in GarbageSets : call_list_win_handle_key_show(action, g, gx)

\* C21: the extended flow of the highlighted call c hands the flow window a
\* group holding c and every call of c.xcalls, anchored at c's Call-ID,
\* whatever was selected before; the plain flow hands the selection (or c
\* alone) with no related call added and no anchor.
C21_ExtendedFlow ==
    [][OnStoredCall =>
         LET c == CurCall(NullPtr) IN
         /\ KeyShows("ACTION_SHOW_FLOW_EX") =>
               /\ handed'[1].window = "WINDOW_CALL_FLOW"
               /\ c \in handed'[1].group
               /\ Xcalls(c) \subseteq handed'[1].group
               /\ handed'[1].callid = c
         /\ KeyShows("ACTION_SHOW_FLOW") =>
               /\ handed'[1].window = "WINDOW_CALL_FLOW"
               /\ handed'[1].group = (IF group = {} THEN {c} ELSE group)
               /\ handed'[1].callid = NullPtr]_vars


\* C22: whenever dcalls is non-empty, 0 <= cur_idx < number of displayed
\* calls, so that the keys reading dcalls[cur_idx] stay inside the array.
C22_CurIdxInside == Len(dcalls) # 0 => CurInside

\* What call_list_win_handle_key does for the action set on a menu item.
KeyHandles(action) ==
    CASE action = "ACTION_CLEAR_CALLS" -> call_list_win_handle_key_clear_calls
      [] action = "ACTION_CLEAR_CALLS_SOFT" -> call_list_win_handle_key_clear_calls_soft
      [] OTHER -> \E g \in Garbage, gx \in GarbageSets :
                     call_list_win_handle_key_show(action, g, gx)

\* A menu item is activated in this step.
Activates(item) ==
    \E g \in Garbage, gx \in GarbageSets : menu_item_activate(item, g, gx)

\* C24: activating an item of the "Call List" menu does what the key handler
\* does for the action set on the item, once: whenever the key handler can
\* handle that action, the item's activation is such a step of the key handler.
C24_MenuAsKey ==
    \A item \in MenuListItems :
        ENABLED KeyHandles(MenuItemAction(item))
            => ENABLED (Activates(item) /\ KeyHandles(MenuItemAction(item)))

\* C25: the horizontal scroll position is never negative and never above
\* the total width of the columns less the width of the window.
C25_HscrollRange ==
    /\ 0 <= hscroll_pos
    /\ hscroll_pos <= MAX(0, hscroll_max - WinWidth)

\* C26: the vertical scrollbar position always equals the first-visible
\* index, and a clear leaves selection, first-visible index and scroll
\* position at 0 as in a new window.
C26_VscrollIsFirst == vscroll_pos = first_idx

\* The list is drawn in this step.
Draws == \E padw \in ColumnsWidths : call_list_win_draw_list(padw)

\* A vertical navigation key is handled by the list in this step.
KeyMoves ==
    \E a \in MoveActions, ovf \in {"wrap", "saturate"} : call_list_win_handle_key_move(a, ovf)

\* C27: with autoscroll enabled, a draw leaves the cursor on the last displayed
\* call when the order is ascending and on the first when it is descending; a
\* vertical navigation key disables autoscroll, and only ACTION_AUTOSCROLL
\* enables it again.
C27_Autoscroll ==
    [][/\ (Draws /\ autoscroll /\ Len(dcalls') # 0)
            => cur_idx' = (IF sort_asc THEN Len(dcalls') - 1 ELSE 0)
       /\ KeyMoves => ~autoscroll'
       /\ (~autoscroll /\ autoscroll') => call_list_win_handle_key_autoscroll]_vars

\* ======================================================= capture.c, claims
\* C23: a capture_manager_set_filter call that returns failure leaves the
\* filter installed on every attached input as it was before the call.
C23_FailedFilterRollsBack ==
    [][\A e \in Exprs :
          (/\ capture_manager_set_filter(manager, e)
           /\ ~set_filter_ret'.ok)
          => \A i \in InputsOf(manager) : input'[i].filter = input[i].filter]_vars

\* C28: the process-wide instance pointer never refers to a manager that
\* capture_manager_free has released.
C28_InstanceNotFreed == capture_manager_get_instance \notin freed

\* capture_status_desc reports an Online mode, whatever the qualifier.
ReportsOnline(m) == capture_status_desc(m)[1] = "Online"

\* C29: capture_is_online and capture_status_desc agree for every set of
\* attached inputs, the empty set included: capture_is_online is TRUE exactly
\* when the description reports an Online mode.
C29_OnlineAgrees == capture_is_online(manager) <=> ReportsOnline(manager)

\* C29, amended: they agree whenever an input is attached.
C29_OnlineAgreesAttached ==
    InputsOf(manager) # {} => (capture_is_online(manager) <=> ReportsOnline(manager))

\* C29 happens: two live inputs attached and the manager paused: both say
\* Online.
C29_Witness ==
    /\ Len(managers[manager].inputs) = 2
    /\ \A i \in InputsOf(manager) : input[i].mode = CAPTURE_MODE_ONLINE
    /\ managers[manager].paused
    /\ capture_is_online(manager)
    /\ capture_status_desc(manager) = <<"Online", "Paused">>

\* ------------------------------------------------------ packet_sdp.c, claims
\* The pointer to the record allocated as number h of fmt_heap.
HeapPtr(h) == [tbl |-> FALSE, at |-> h]

\* How many times pointer f was handed to g_free.
TimesFreed(f) == Cardinality({k \in 1..Len(sdp_freed) : sdp_freed[k] = f})

\* C30: the static payload table is never modified and none of its records
\* is released, and once the packet's SDP data has been released every record
\* dissection allocated for a non-standard code has been released exactly
\* once.
C30_TableKeptRecordsFreedOnce ==
    /\ formats_written = <<>>
    /\ \A k \in 1..Len(sdp_freed) : ~sdp_freed[k].tbl
    /\ (sdp_pc = "freed" /\ packet.PACKET_PROTO_SDP) =>
           \A h \in 1..Len(fmt_heap) : TimesFreed(HeapPtr(h)) = 1

\* A released packet whose body named the standard code 0 of its first media
\* with a rtpmap attribute, and whose next media listed a record of formats[]
\* beside an allocated one, which was released.
C30_Witness ==
    /\ sdp_pc = "freed"
    /\ packet.PACKET_PROTO_SDP
    /\ sdp_lines = <<SdpLineM1, SdpLineRtpmapStd, SdpLineM3>>
    /\ \E k \in 1..Len(sdp.medias[2].formats) : sdp.medias[2].formats[k].tbl
    /\ Len(fmt_heap) = 1
    /\ sdp_freed = <<HeapPtr(1)>>

====
